---- MODULE Spec2Model ----
(***************************************************************************)
(* Verification model of the check-cx scheduling and execution core:       *)
(* the poller lease (lib/database/poller-lease.ts), the background poller  *)
(* (lib/core/poller.ts), the provider fan-out (lib/providers/index.ts),    *)
(* the probe classification (lib/providers/ai-sdk-check.ts) and the        *)
(* dashboard snapshot cache (lib/core/dashboard-data.ts, global-state.ts). *)
(***************************************************************************)
EXTENDS Integers, Sequences, FiniteSets, TLC

(***************************************************************************)
(* Bounds of the model                                                     *)
(***************************************************************************)
\* number of clock steps of the lease-store specification
MaxLeaseSteps == 3

\* number of global poll periods the scheduler specification runs for
MaxTicks == 4

\* node identities sharing one lease row (CHECK_NODE_ID)
Nodes == {"a", "b"}

\* leader_id = null
NoNode == "null"

(***************************************************************************)
(* lib/core/polling-config.ts                                              *)
(***************************************************************************)
DEFAULT_INTERVAL_SECONDS == 60
MIN_INTERVAL_SECONDS == 15
MAX_INTERVAL_SECONDS == 600
PER_CONFIG_POLL_INTERVAL_MIN == 15
PER_CONFIG_POLL_INTERVAL_MAX == 3600

\* metadata.poll_interval_seconds absent (null / undefined)
Unset == -1

Max2(x, y) == IF x >= y THEN x ELSE y
Min2(x, y) == IF x <= y THEN x ELSE y
MinOf(S) == CHOOSE x \in S : \A y \in S : x <= y

DEFAULT_OFFICIAL_STATUS_INTERVAL_SECONDS == 300
MIN_OFFICIAL_STATUS_INTERVAL_SECONDS == 60
MAX_OFFICIAL_STATUS_INTERVAL_SECONDS == 3600
DEFAULT_CHECK_CONCURRENCY == 5
MIN_CHECK_CONCURRENCY == 1
MAX_CHECK_CONCURRENCY == 20

\* A value of process.env: the variable is absent (undefined), or it holds the
\* empty string, a text that is no numeral, or a numeral (integers only here).
EnvUnset == [kind |-> "unset", value |-> 0]
EnvEmpty == [kind |-> "empty", value |-> 0]
EnvText == [kind |-> "text", value |-> 0]
EnvNumber(n) == [kind |-> "number", value |-> n]

\* JavaScript Number(raw): undefined and text give NaN, "" gives 0
NaN == [finite |-> FALSE, value |-> 0]
Number(raw) ==
  CASE raw.kind = "number" -> [finite |-> TRUE, value |-> raw.value]
    [] raw.kind = "empty" -> [finite |-> TRUE, value |-> 0]
    [] OTHER -> NaN

\* raw: process.env.CHECK_POLL_INTERVAL_SECONDS
parseIntervalSeconds(raw) ==
  IF Number(raw).finite /\ Number(raw).value > 0
  THEN Number(raw).value
  ELSE DEFAULT_INTERVAL_SECONDS

getPollingIntervalSeconds(raw) ==
  Max2(MIN_INTERVAL_SECONDS, Min2(MAX_INTERVAL_SECONDS, parseIntervalSeconds(raw)))

\* CHECK_POLL_INTERVAL_SECONDS is not set in the deployment the schedulers run in
getPollingIntervalMs == getPollingIntervalSeconds(EnvUnset) * 1000

\* raw: process.env.OFFICIAL_STATUS_CHECK_INTERVAL_SECONDS
parseOfficialStatusIntervalSeconds(raw) ==
  IF Number(raw).finite /\ Number(raw).value > 0
  THEN Number(raw).value
  ELSE DEFAULT_OFFICIAL_STATUS_INTERVAL_SECONDS

getOfficialStatusIntervalSeconds(raw) ==
  Max2(MIN_OFFICIAL_STATUS_INTERVAL_SECONDS,
       Min2(MAX_OFFICIAL_STATUS_INTERVAL_SECONDS, parseOfficialStatusIntervalSeconds(raw)))

\* raw: process.env.CHECK_CONCURRENCY
parseCheckConcurrency(raw) ==
  IF Number(raw).finite /\ Number(raw).value > 0
  THEN Number(raw).value
  ELSE DEFAULT_CHECK_CONCURRENCY

getCheckConcurrency(raw) ==
  Max2(MIN_CHECK_CONCURRENCY, Min2(MAX_CHECK_CONCURRENCY, parseCheckConcurrency(raw)))

(***************************************************************************)
(* lib/database/history.ts                                                 *)
(***************************************************************************)
DEFAULT_RETENTION_DAYS == 30
MIN_RETENTION_DAYS == 7
MAX_RETENTION_DAYS == 365

\* raw: process.env.HISTORY_RETENTION_DAYS
HISTORY_RETENTION_DAYS(raw) ==
  IF Number(raw).finite
  THEN Max2(MIN_RETENTION_DAYS, Min2(MAX_RETENTION_DAYS, Number(raw).value))
  ELSE DEFAULT_RETENTION_DAYS

(***************************************************************************)
(* Values the environment variables may hold: absent, empty, text, and     *)
(* numerals below, on and above the limits of each setting                 *)
(***************************************************************************)
NonNumerals == {EnvUnset, EnvEmpty, EnvText}

PollIntervalEnv ==
  NonNumerals \cup {EnvNumber(n) : n \in {0 - 5, 0, MIN_INTERVAL_SECONDS - 1, MIN_INTERVAL_SECONDS,
                                         MAX_INTERVAL_SECONDS, MAX_INTERVAL_SECONDS + 1}}

ConcurrencyEnv ==
  NonNumerals \cup {EnvNumber(n) : n \in {0 - 5, 0, MIN_CHECK_CONCURRENCY,
                                         MAX_CHECK_CONCURRENCY, MAX_CHECK_CONCURRENCY + 1}}

RetentionEnv ==
  NonNumerals \cup {EnvNumber(n) : n \in {0 - 5, 0, MIN_RETENTION_DAYS - 1, MIN_RETENTION_DAYS,
                                         MAX_RETENTION_DAYS, MAX_RETENTION_DAYS + 1}}

OfficialStatusEnv ==
  NonNumerals \cup {EnvNumber(n) : n \in {0 - 5, 0, MIN_OFFICIAL_STATUS_INTERVAL_SECONDS - 1,
                                         MIN_OFFICIAL_STATUS_INTERVAL_SECONDS,
                                         MAX_OFFICIAL_STATUS_INTERVAL_SECONDS,
                                         MAX_OFFICIAL_STATUS_INTERVAL_SECONDS + 1}}

(***************************************************************************)
(* lib/core/polling-config.ts, per-target interval                         *)
(***************************************************************************)

\* null is modelled by Unset
getConfigPollIntervalSeconds(raw) ==
  IF raw = Unset THEN Unset
  ELSE IF raw < PER_CONFIG_POLL_INTERVAL_MIN \/ raw > PER_CONFIG_POLL_INTERVAL_MAX THEN Unset
  ELSE raw

\* envRaw: process.env.CHECK_POLL_INTERVAL_SECONDS, read by getPollingIntervalMs()
getEffectivePollIntervalMsUnder(raw, envRaw) ==
  IF getConfigPollIntervalSeconds(raw) # Unset
  THEN getConfigPollIntervalSeconds(raw) * 1000
  ELSE getPollingIntervalSeconds(envRaw) * 1000

getEffectivePollIntervalMs(raw) == getEffectivePollIntervalMsUnder(raw, EnvUnset)

(***************************************************************************)
(* The monitored targets (rows of check_configs with enabled = true)       *)
(***************************************************************************)
\* c: custom 20 s interval; g: global interval; l: custom 300 s interval;
\* m: with an out-of-range override, in maintenance
ConfigIds == {"c", "g", "l", "m"}

ConfigRows ==
  [id \in ConfigIds |->
     [poll_interval_seconds |-> CASE id = "c" -> 20 [] id = "g" -> Unset [] id = "l" -> 300
                                   [] OTHER -> 5,
      is_maintenance |-> (id = "m")]]

IntervalOf(id) == getEffectivePollIntervalMs(ConfigRows[id].poll_interval_seconds)

\* the flags of the rows in the deployment the schedulers start in: l is
\* disabled, m is in maintenance
InitialConfigs ==
  [id \in ConfigIds |-> [enabled |-> id # "l", is_maintenance |-> ConfigRows[id].is_maintenance]]

\* the ids of the rows that are enabled in that deployment
InitialEnabled == {id \in ConfigIds : InitialConfigs[id].enabled}

(***************************************************************************)
(* Time                                                                    *)
(***************************************************************************)
\* the instant the processes start (any instant after the epoch of new Date(0))
BootTime == getPollingIntervalMs \div 60

\* lease duration the elector asks for (expiry = now + ttl)
LEASE_TTL_MS == 2 * getPollingIntervalMs

\* ai-sdk-check.ts: per-probe timeout default and upper bound of the override
DEFAULT_TIMEOUT_MS == 45000
TIMEOUT_MS_MAX == 300000

\* how long a batch of probes may take: a quick answer, or an endpoint that
\* hangs under a long timeout override
BatchDurations == {2 * 1000, TIMEOUT_MS_MAX - 100 * 1000}

MaxTime == BootTime + MaxTicks * getPollingIntervalMs

MaxLeaseClock == BootTime + MaxLeaseSteps * getPollingIntervalMs

VARIABLES
  lease,      \* the singleton row of check_poller_leases: leader_id, lease_expires_at
  clock,      \* wall clock shared by the nodes and the store (ms)
  leaseReq,   \* per node: the lease call in flight (its kind and its now/expiresAt arguments)
  leaseRes,   \* per node: the last completed lease call and its boolean result
  grants,     \* history: every successful lease call as a window [node, from, to]
  role,       \* per node: globalThis.__checkCxPollerRole
  running,    \* per node: globalThis.__checkCxPollerRunning
  lastChecked,        \* per node: globalThis.__CHECK_CX_CONFIG_LAST_CHECKED__ (0 = no entry)
  pollerTimer,        \* per node: next firing time of the setInterval timer
  supplementaryTimer, \* per node: firing time of the one-shot timer, NoTimer if none
  timers,     \* per node: the timers the runtime holds for the process, and its module loads
  batches,    \* per node: the runProviderChecks calls in flight
  history,    \* History Store: ids of the targets that have rows in check_history
  event,      \* the handler that ran last and how it ended
  faults,     \* history: the kinds of disturbance the scheduler has met so far
  targetMeta, \* runProviderChecks: metadata of each target of the batch under test
  batchPhase, \* runProviderChecks: "idle", "first", "confirm" or "returned"
  task,       \* runProviderChecks: per target, the checkWithRetry call (state, loop variable, run in flight)
  results,    \* runProviderChecks: per target, the CheckResult held in the results array
  attempts,   \* history: per target, the number of checkProvider calls of the batch
  pingCacheStore, \* globalThis.__CHECK_CX_PING_CACHE__: cache key -> entry (0: no such key)
  cacheEntries,   \* the PingCacheEntry objects ever created, by identity
  refreshes,      \* the inflightPromise objects ever created by refreshHistory
  callers,        \* per caller, its loadDashboardData call in progress
  calls,          \* number of loadDashboardData calls made
  env,            \* process.env: the raw values of the four numeric settings
  settings,       \* per setting, the value the process resolved last (Unset: not read yet)
  isPolling,            \* official-status-poller.ts: the in-flight guard
  pollingTimerId,       \* official-status-poller.ts: TRUE while the interval timer is set
  officialStatusCache,  \* official-status-poller.ts: vendor -> latest OfficialStatusResult
  officialRuns,         \* the runOfficialStatusCheck runs that await their fetch
  officialCalls,        \* number of runOfficialStatusCheck invocations made
  officialEvent,        \* the official-status handler that ran last and how it ended
  checkHistory,   \* History Store: the rows of check_history
  checkConfigs,   \* Target Store: per row of check_configs, its enabled and is_maintenance flags
  fetchOptions,   \* SnapshotStore.fetch: the options of the read under test
  fetched         \* per read path, the snapshot SnapshotStore.fetch returned (Unset: not run)

leaseVars == <<leaseReq, leaseRes, grants>>
pollerState == <<role, running, lastChecked, pollerTimer, supplementaryTimer, batches,
                 history, event, faults>>

pollerVars == <<pollerState, timers>>

probeVars == <<targetMeta, batchPhase, task, results, attempts>>

cacheVars == <<pingCacheStore, cacheEntries, refreshes, callers, calls>>

configVars == <<env, settings>>

officialVars == <<isPolling, pollingTimerId, officialStatusCache, officialRuns, officialCalls,
                  officialEvent>>

readVars == <<checkHistory, checkConfigs, fetchOptions, fetched>>

vars == <<lease, clock, leaseReq, leaseRes, grants, role, running, lastChecked,
          pollerTimer, supplementaryTimer, timers, batches, history, event, faults,
          targetMeta, batchPhase, task, results, attempts,
          pingCacheStore, cacheEntries, refreshes, callers, calls, env, settings,
          isPolling, pollingTimerId, officialStatusCache, officialRuns, officialCalls,
          officialEvent, checkHistory, checkConfigs, fetchOptions, fetched>>

(***************************************************************************)
(* lib/database/poller-lease.ts                                            *)
(***************************************************************************)
\* new Date(0): the expiry ensurePollerLeaseRow inserts
INITIAL_LEASE_EXPIRES_AT == 0

InitialLeaseRow == [leader_id |-> NoNode, lease_expires_at |-> INITIAL_LEASE_EXPIRES_AT]

\* a lease-store call without its expiry filter (.lt / .gt dropped)
UnguardedMatch(row, nowIso) == TRUE

\* .lt("lease_expires_at", nowIso)
AcquireMatches(row, nowIso) == row.lease_expires_at < nowIso

\* a renewal filter without .eq("leader_id", nodeId)
RenewMatchesAnyOwner(row, nodeId, nowIso) == row.lease_expires_at > nowIso

\* .eq("leader_id", nodeId).gt("lease_expires_at", nowIso)
RenewMatches(row, nodeId, nowIso) ==
  /\ row.leader_id = nodeId
  /\ row.lease_expires_at > nowIso

\* an acquire that reports the row as claimed although the store answered with an error
tryAcquireIgnoringError(row, nodeId, now, expiresAt, dbError) ==
  IF AcquireMatches(row, now)
  THEN [ok |-> TRUE, row |-> [leader_id |-> nodeId, lease_expires_at |-> expiresAt]]
  ELSE [ok |-> FALSE, row |-> row]

\* UPDATE ... WHERE lease_expires_at < now RETURNING lease_key; error => false
tryAcquirePollerLease(row, nodeId, now, expiresAt, dbError) ==
  IF dbError THEN [ok |-> FALSE, row |-> row]
  ELSE IF AcquireMatches(row, now)
       THEN [ok |-> TRUE, row |-> [leader_id |-> nodeId, lease_expires_at |-> expiresAt]]
       ELSE [ok |-> FALSE, row |-> row]

\* UPDATE ... WHERE leader_id = node AND lease_expires_at > now RETURNING lease_key
tryRenewPollerLease(row, nodeId, now, expiresAt, dbError) ==
  IF dbError THEN [ok |-> FALSE, row |-> row]
  ELSE IF RenewMatches(row, nodeId, now)
       THEN [ok |-> TRUE, row |-> [row EXCEPT !.lease_expires_at = expiresAt]]
       ELSE [ok |-> FALSE, row |-> row]

(***************************************************************************)
(* lib/providers/ai-sdk-check.ts                                           *)
(***************************************************************************)
DEGRADED_THRESHOLD_MS == 6000
TIMEOUT_MS_MIN == 1000
DEGRADED_THRESHOLD_MS_MIN == 100
DEGRADED_THRESHOLD_MS_MAX == 120000

\* A value of metadata[key] as the JSON column holds it: null (or the key is
\* absent), a number, or a string that is a numeral, empty, or other text.
JsonNull == [kind |-> "null", value |-> 0]
JsonNumber(n) == [kind |-> "number", value |-> n]
JsonNumeral(n) == [kind |-> "numeral", value |-> n]
JsonEmpty == [kind |-> "empty", value |-> 0]
JsonText == [kind |-> "text", value |-> 0]

\* raw === null || raw === undefined => absent; typeof raw === "number" ? raw
\* : Number(raw); a value that is not finite resolves like an absent one
metadataNumber(raw) ==
  CASE raw.kind = "null" -> Unset
    [] raw.kind = "number" -> raw.value
    [] raw.kind = "numeral" ->
         IF Number(EnvNumber(raw.value)).finite THEN Number(EnvNumber(raw.value)).value ELSE Unset
    [] raw.kind = "empty" ->
         IF Number(EnvEmpty).finite THEN Number(EnvEmpty).value ELSE Unset
    [] OTHER ->
         IF Number(EnvText).finite THEN Number(EnvText).value ELSE Unset

\* an override resolution that clamps an out-of-range value into [min, max]
getNumericConfigClamped(raw, defaultValue, min, max) ==
  IF raw = Unset THEN defaultValue
  ELSE Max2(min, Min2(max, raw))

\* metadata[key]: absent => default, out of [min, max] => default, else the value
getNumericConfig(raw, defaultValue, min, max) ==
  IF raw = Unset THEN defaultValue
  ELSE IF raw < min \/ raw > max THEN defaultValue
  ELSE raw

\* an error object: its name and what its message contains
\* error.name === "AbortError" || /request was aborted|timeout/i.test(message)
isTimeoutError(error) ==
  \/ error.name = "AbortError"
  \/ error.message \in {"request was aborted", "timeout"}

\* "请求超时" is written "timeout"; any other text is carried as it is
getErrorMessage(error) ==
  IF isTimeoutError(error) THEN "timeout" ELSE error.message

CheckResult(status, latencyMs, message) ==
  [status |-> status, latencyMs |-> latencyMs, message |-> message]

\* latencyMs: null
Null == -1

\* latencyMs < degradedThresholdMs ? "operational" : "degraded"
StatusOfLatencyStrict(latencyMs, degradedThresholdMs) ==
  IF latencyMs < degradedThresholdMs THEN "operational" ELSE "degraded"

\* latencyMs <= degradedThresholdMs ? "operational" : "degraded"
StatusOfLatency(latencyMs, degradedThresholdMs) ==
  IF latencyMs <= degradedThresholdMs THEN "operational" ELSE "degraded"

\* catch (error) { return buildCheckResult(params, "error", null, getErrorMessage(error)) }
Caught(error) == CheckResult("error", Null, getErrorMessage(error))

\* `回复验证失败: 期望 ${challenge.expectedAnswer}, 实际: ${actualNumbers}`, where
\* actualNumbers is the list of the extracted numbers or "(无数字)" when there is none
ValidationMessage == "validation failed: expected <expectedAnswer>, actual <extractedNumbers>"

\* a classification that looks at the collected text before the stream error
checkWithAiSdkTextFirst(meta, run) ==
  LET degradedThresholdMs == getNumericConfig(meta.degraded_threshold_ms,
          DEGRADED_THRESHOLD_MS, DEGRADED_THRESHOLD_MS_MIN, DEGRADED_THRESHOLD_MS_MAX)
  IN IF run.thrown THEN Caught(run.error)
     ELSE IF run.text = "empty" THEN CheckResult("failed", run.latencyMs, "empty reply")
     ELSE IF run.text = "invalid"
          THEN CheckResult("validation_failed", run.latencyMs, ValidationMessage)
     ELSE IF run.streamError
          THEN CheckResult("error", run.latencyMs, getErrorMessage(run.error))
     ELSE CheckResult(StatusOfLatency(run.latencyMs, degradedThresholdMs), run.latencyMs,
                      IF StatusOfLatency(run.latencyMs, degradedThresholdMs) = "degraded"
                      THEN "slow" ELSE "validated")

\* run: what the request did.  thrown: streamText / the text stream threw
\* run.error; streamError: onError received run.error; text: what was
\* collected ("empty", "valid" or "invalid" against the challenge); latencyMs:
\* Date.now() - startedAt when the stream ended
checkWithAiSdk(meta, run) ==
  LET degradedThresholdMs == getNumericConfig(meta.degraded_threshold_ms,
          DEGRADED_THRESHOLD_MS, DEGRADED_THRESHOLD_MS_MIN, DEGRADED_THRESHOLD_MS_MAX)
  IN IF run.thrown THEN Caught(run.error)
     ELSE IF run.streamError
          THEN CheckResult("error", run.latencyMs, getErrorMessage(run.error))
     ELSE IF run.text = "empty" THEN CheckResult("failed", run.latencyMs, "empty reply")
     ELSE IF run.text = "invalid"
          THEN CheckResult("validation_failed", run.latencyMs, ValidationMessage)
     ELSE CheckResult(StatusOfLatency(run.latencyMs, degradedThresholdMs), run.latencyMs,
                      IF StatusOfLatency(run.latencyMs, degradedThresholdMs) = "degraded"
                      THEN "slow" ELSE "validated")

timeoutMsOf(meta) ==
  getNumericConfig(meta.timeout_ms, DEFAULT_TIMEOUT_MS, TIMEOUT_MS_MIN, TIMEOUT_MS_MAX)

NoError == [name |-> "none", message |-> "none"]
AbortError == [name |-> "AbortError", message |-> "This operation was aborted"]

\* latencies a completed request is observed with
LatencySamples == {100, 101, 6000, 6001, 120000, 120001}

\* requests that end before the timeout fires
CompletedRuns(meta) ==
  {[thrown |-> FALSE, streamError |-> se, error |-> e, text |-> tx, latencyMs |-> l,
    timedOut |-> FALSE] :
     se \in {FALSE}, e \in {NoError}, tx \in {"empty", "valid", "invalid"},
     l \in {x \in LatencySamples : x < timeoutMsOf(meta)}}
  \cup
  {[thrown |-> FALSE, streamError |-> TRUE, error |-> e, text |-> "empty", latencyMs |-> 100,
    timedOut |-> FALSE] :
     e \in {[name |-> "Error", message |-> "bad gateway"],
            [name |-> "Error", message |-> "request was aborted"]}}
  \cup
  {[thrown |-> TRUE, streamError |-> FALSE, error |-> e, text |-> "empty", latencyMs |-> 100,
    timedOut |-> FALSE] :
     e \in {[name |-> "Error", message |-> "bad gateway"],
            [name |-> "Error", message |-> "request was aborted"]}}

\* requests during which controller.abort() fires at timeoutMs: the stream
\* rejects with the AbortError, or reports it through onError, or just ends
\* with what was collected so far
TimedOutRuns(meta) ==
  {[thrown |-> TRUE, streamError |-> FALSE, error |-> AbortError, text |-> "empty",
    latencyMs |-> timeoutMsOf(meta), timedOut |-> TRUE],
   [thrown |-> FALSE, streamError |-> TRUE, error |-> AbortError, text |-> "empty",
    latencyMs |-> timeoutMsOf(meta), timedOut |-> TRUE]}
  \cup
  {[thrown |-> FALSE, streamError |-> FALSE, error |-> NoError, text |-> tx,
    latencyMs |-> timeoutMsOf(meta), timedOut |-> TRUE] : tx \in {"empty", "invalid"}}

(***************************************************************************)
(* lib/providers/index.ts                                                  *)
(***************************************************************************)
MAX_REQUEST_ABORT_RETRIES == 1

\* a fan-out layer with one confirmation retry fewer: no confirmation pass
NoConfirmRetries == 1 - 1

FAILURE_CONFIRM_RETRIES == 1

\* REQUEST_ABORTED_PATTERN.test(message)
shouldRetryRequestAborted(message) == message = "request was aborted"

\* what one checkProvider call does: it returns the result of checkWithAiSdk,
\* or the result of a provider function that reports the transport message
\* unchanged (stream-check.ts), or it throws
ProviderOutcomes(meta) ==
  {[threw |-> FALSE, message |-> "none", result |-> checkWithAiSdk(meta, run), run |-> run] :
      run \in CompletedRuns(meta) \cup TimedOutRuns(meta)}
  \cup
  {[threw |-> FALSE, message |-> "none",
    result |-> CheckResult("failed", Null, "request was aborted"),
    run |-> [thrown |-> TRUE, streamError |-> FALSE,
             error |-> [name |-> "Error", message |-> "request was aborted"],
             text |-> "empty", latencyMs |-> 100, timedOut |-> FALSE]]}
  \cup
  {[threw |-> TRUE, message |-> m, result |-> CheckResult("failed", Null, m),
    run |-> [thrown |-> TRUE, streamError |-> FALSE, error |-> [name |-> "Error", message |-> m],
             text |-> "empty", latencyMs |-> 100, timedOut |-> FALSE]] :
      m \in {"request was aborted", "unsupported provider"}}

\* the outcomes that carry the "request was aborted" signature past checkProvider
AbortedOutcomes(meta) ==
  {o \in ProviderOutcomes(meta) :
      \/ o.threw /\ shouldRetryRequestAborted(o.message)
      \/ ~o.threw /\ o.result.status = "failed" /\ shouldRetryRequestAborted(o.result.message)}

\* the targets of the batch under test
ProbeTargets == {"p", "q"}

\* endpoint behaviours: "any" answers anything, "aborted" always fails with the
\* request-was-aborted signature, "quick" answers anything without delay
OutcomesOf(meta) ==
  IF meta.behaviour = "aborted" THEN AbortedOutcomes(meta)
  ELSE IF meta.behaviour = "quick"
       THEN {o \in ProviderOutcomes(meta) : ~o.run.timedOut /\ o.run.latencyMs = 100}
  ELSE ProviderOutcomes(meta)

NoResult == CheckResult("none", Null, "none")
NoRun == [thrown |-> FALSE, streamError |-> FALSE, error |-> NoError, text |-> "empty",
          latencyMs |-> 0, timedOut |-> FALSE]
IdleTask == [state |-> "idle", attempt |-> 0, run |-> NoRun, threw |-> FALSE, last |-> "none"]

\* the batch part of the state when no batch is under test
ProbeIdle ==
  /\ targetMeta = [i \in ProbeTargets |->
        [degraded_threshold_ms |-> Unset, timeout_ms |-> Unset, behaviour |-> "any"]]
  /\ batchPhase = "idle"
  /\ task = [i \in ProbeTargets |-> IdleTask]
  /\ results = [i \in ProbeTargets |-> NoResult]
  /\ attempts = [i \in ProbeTargets |-> 0]

\* attempt < MAX_REQUEST_ABORT_RETRIES + 1 (one retry too many)
MayRetryOnceMore(attempt) == attempt < MAX_REQUEST_ABORT_RETRIES + 1

\* attempt < MAX_REQUEST_ABORT_RETRIES
MayRetry(attempt) == attempt < MAX_REQUEST_ABORT_RETRIES

\* a thrown error reported with status "error"
ThrownResultAsError(message) == CheckResult("error", Null, message)

\* the result checkWithRetry builds in its catch block
ThrownResult(message) == CheckResult("failed", Null, message)

\* the status of what an attempt produced: of the result checkProvider
\* returned, or of the result the catch block builds for a thrown error
OutcomeStatus(o) == IF o.threw THEN ThrownResult(o.message).status ELSE o.result.status

\* one iteration of the loop of checkWithRetry, given what checkProvider did:
\* either "continue" (next attempt) or the CheckResult it returns
checkWithRetryStep(attempt, o) ==
  IF ~o.threw
  THEN IF o.result.status = "failed" /\ shouldRetryRequestAborted(o.result.message)
          /\ MayRetry(attempt)
       THEN [continue |-> TRUE, result |-> NoResult]
       ELSE [continue |-> FALSE, result |-> o.result]
  ELSE IF shouldRetryRequestAborted(o.message) /\ MayRetry(attempt)
       THEN [continue |-> TRUE, result |-> NoResult]
       ELSE [continue |-> FALSE, result |-> ThrownResult(o.message)]

\* the callers of loadDashboardData (page renders, API requests)
Callers == {"u1", "u2"}

IdleCaller == [pc |-> "idle", configs |-> {}, entry |-> 0, mode |-> "none", awaiting |-> 0,
               served |-> "none"]

\* the cache part of the state of a process that has served no request yet
CacheIdle ==
  /\ pingCacheStore = [k \in SUBSET ConfigIds |-> 0]
  /\ cacheEntries = <<>>
  /\ refreshes = <<>>
  /\ callers = [u \in Callers |-> IdleCaller]
  /\ calls = 0

SettingNames == {"pollIntervalSeconds", "checkConcurrency", "retentionDays",
                 "officialStatusIntervalSeconds"}

\* a process started without any of the four variables that has not read a setting yet
ConfigIdle ==
  /\ env = [s \in SettingNames |-> EnvUnset]
  /\ settings = [s \in SettingNames |-> Unset]

\* ProviderType
ProviderTypes == {"openai", "gemini", "anthropic"}

\* officialStatusCache.get(type) of a vendor that has no entry
NoOfficialResult == [status |-> "undefined", message |-> "undefined", checkedAt |-> 0,
                     affectedComponents |-> 0]

\* a body without a summary object
NoSummary == [summary |-> FALSE, affected |-> {}, incidents |-> {}, named |-> 0]

NoFetch == [kind |-> "none", status |-> 0, body |-> NoSummary]

NoOfficialEvent == [kind |-> "none", run |-> 0, fetch |-> NoFetch]

\* the official-status part of the state of a process whose poller has not started
OfficialIdle ==
  /\ isPolling = FALSE
  /\ pollingTimerId = FALSE
  /\ officialStatusCache = [t \in ProviderTypes |-> NoOfficialResult]
  /\ officialRuns = {}
  /\ officialCalls = 0
  /\ officialEvent = NoOfficialEvent

\* no read of the History Store under test
ReadIdle ==
  /\ checkHistory = {}
  /\ checkConfigs = InitialConfigs
  /\ fetchOptions = [limitPerConfig |-> Unset, allowedIds |-> [given |-> FALSE, ids |-> {}]]
  /\ fetched = [path \in {"rpc", "fallback", "error"} |-> [done |-> FALSE, snapshot |-> <<>>]]

NoTimer == 0

\* the runtime's timer table of a process: the live setInterval timers of the
\* scheduler and of the official-status poller, the pending setTimeout timers,
\* and how often the poller module has been evaluated
NoTimers == [main |-> 0, official |-> 0, timeouts |-> 0, loads |-> 0]

\* the table after the module initialisation of a process whose
\* official-status poller is not looked at
StartedTimers == [main |-> 1, official |-> 0, timeouts |-> 0, loads |-> 1]

NoEvent == [node |-> NoNode, kind |-> "none", outcome |-> "none", now |-> 0, due |-> {},
            loaded |-> FALSE, active |-> {}]

\* the scheduler part of the state when nothing has run yet
PollerIdle ==
  /\ role = [n \in Nodes |-> "standby"]
  /\ running = [n \in Nodes |-> FALSE]
  /\ lastChecked = [n \in Nodes |-> [id \in ConfigIds |-> 0]]
  /\ pollerTimer = [n \in Nodes |-> NoTimer]
  /\ supplementaryTimer = [n \in Nodes |-> NoTimer]
  /\ timers = [n \in Nodes |-> NoTimers]
  /\ batches = [n \in Nodes |-> {}]
  /\ history = {}
  /\ event = NoEvent
  /\ faults = {}

NoReq == [kind |-> "none", now |-> 0, expiresAt |-> 0, sawExpired |-> FALSE]
NoRes == [kind |-> "none", now |-> 0, ok |-> FALSE, sawExpired |-> FALSE, err |-> FALSE]

\* metadata of the target under test: degraded_threshold_ms absent, below the
\* range, at its ends and above it; timeout_ms absent or at its maximum
MetaSamples ==
  {[degraded_threshold_ms |-> Unset, timeout_ms |-> Unset, behaviour |-> "any"],
   [degraded_threshold_ms |-> 99, timeout_ms |-> Unset, behaviour |-> "any"],
   [degraded_threshold_ms |-> 100, timeout_ms |-> Unset, behaviour |-> "any"],
   [degraded_threshold_ms |-> 120000, timeout_ms |-> 300000, behaviour |-> "any"],
   [degraded_threshold_ms |-> 120001, timeout_ms |-> 300000, behaviour |-> "any"],
   [degraded_threshold_ms |-> Unset, timeout_ms |-> Unset, behaviour |-> "aborted"]}

\* a batch of targets is handed to runProviderChecks
InitProbe ==
  /\ lease = InitialLeaseRow
  /\ clock = BootTime
  /\ leaseReq = [n \in Nodes |-> NoReq]
  /\ leaseRes = [n \in Nodes |-> NoRes]
  /\ grants = {}
  /\ PollerIdle
  /\ \E meta \in MetaSamples :
       targetMeta = [i \in ProbeTargets |->
          IF i = "p"
          THEN meta
          ELSE [degraded_threshold_ms |-> Unset, timeout_ms |-> Unset, behaviour |-> "quick"]]
  /\ batchPhase = "idle"
  /\ task = [i \in ProbeTargets |-> IdleTask]
  /\ results = [i \in ProbeTargets |-> NoResult]
  /\ attempts = [i \in ProbeTargets |-> 0]
  /\ CacheIdle
  /\ OfficialIdle
  /\ ReadIdle
  /\ ConfigIdle

\* runProviderChecks up to its first await: Promise.all(configs.map(checkWithRetry))
\* calls checkProvider for every target
RunProviderChecks ==
  /\ batchPhase = "idle"
  /\ batchPhase' = "first"
  /\ task' = [i \in ProbeTargets |-> [state |-> "inflight", attempt |-> 0, run |-> NoRun, threw |-> FALSE,
                                  last |-> "none"]]
  /\ attempts' = [i \in ProbeTargets |-> 1]
  /\ UNCHANGED <<results, targetMeta, lease, clock, leaseVars, pollerVars, cacheVars, configVars, officialVars, readVars>>

\* a process-wide AbortController: the timeout of one call aborts the
\* request of every call of the batch
AbortedByShared(i) == ProbeTargets

\* const controller = new AbortController() inside checkWithAiSdk, handed to
\* this call's streamText only: the calls whose request ends when the timeout
\* of call i fires
AbortedBy(i) == {i}

\* the in-flight calls other than i whose request the timeout of i ends
AbortedSiblings(i, o) ==
  IF o.run.timedOut
  THEN {j \in AbortedBy(i) \ {i} : task[j].state = "inflight"}
  ELSE {}

\* a request ended by an abort signal at the moment the timeout of run fires
AbortedRun(run) ==
  [thrown |-> TRUE, streamError |-> FALSE, error |-> AbortError, text |-> "empty",
   latencyMs |-> run.latencyMs, timedOut |-> TRUE]

\* a checkProvider call settles and checkWithRetry continues, returns, or
\* leaves its loop (throw new Error("Unexpected retry loop exit")), which
\* rejects the Promise.all of runProviderChecks
ProbeSettles(i, o) ==
  /\ batchPhase \in {"first", "confirm"}
  /\ task[i].state = "inflight"
  /\ o \in OutcomesOf(targetMeta[i])
  /\ LET step == checkWithRetryStep(task[i].attempt, o)
         aborted == AbortedSiblings(i, o)
         abortedResult(j) == checkWithAiSdk(targetMeta[j], AbortedRun(o.run))
         others(j) == IF j \in aborted
                      THEN [state |-> "settled", attempt |-> task[j].attempt,
                            run |-> AbortedRun(o.run), threw |-> FALSE,
                            last |-> abortedResult(j).status]
                      ELSE task[j]
         otherResults(j) == IF j \in aborted THEN abortedResult(j) ELSE results[j]
     IN IF step.continue /\ task[i].attempt + 1 <= MAX_REQUEST_ABORT_RETRIES
        THEN /\ task' = [j \in ProbeTargets |->
                   IF j = i
                   THEN [state |-> "inflight", attempt |-> task[i].attempt + 1, run |-> NoRun,
                         threw |-> FALSE, last |-> OutcomeStatus(o)]
                   ELSE others(j)]
             /\ attempts' = [attempts EXCEPT ![i] = @ + 1]
             /\ results' = [j \in ProbeTargets |-> otherResults(j)]
             /\ UNCHANGED batchPhase
        ELSE IF step.continue
        THEN /\ task' = [j \in ProbeTargets |->
                   IF j = i
                   THEN [state |-> "loopExit", attempt |-> task[i].attempt + 1, run |-> o.run,
                         threw |-> o.threw, last |-> OutcomeStatus(o)]
                   ELSE others(j)]
             /\ batchPhase' = "threw"
             /\ results' = [j \in ProbeTargets |-> otherResults(j)]
             /\ UNCHANGED attempts
        ELSE /\ task' = [j \in ProbeTargets |->
                   IF j = i
                   THEN [state |-> "settled", attempt |-> task[i].attempt, run |-> o.run,
                         threw |-> o.threw, last |-> OutcomeStatus(o)]
                   ELSE others(j)]
             /\ results' = [j \in ProbeTargets |->
                   IF j = i THEN step.result ELSE otherResults(j)]
             /\ UNCHANGED <<attempts, batchPhase>>
  /\ UNCHANGED <<targetMeta, lease, clock, leaseVars, pollerVars, cacheVars, configVars, officialVars, readVars>>

\* a confirmation pass that takes every result that is not a success
isUnsuccessfulResult(result) == result.status \notin {"operational", "degraded"}

\* result.status === "failed": the test that collects failedIndices
isFailedResult(result) == result.status = "failed"

\* Promise.all of the first pass resolved: the confirmation loop
ConfirmPass ==
  /\ batchPhase = "first"
  /\ \A i \in ProbeTargets : task[i].state = "settled"
  /\ LET failedIndices == {i \in ProbeTargets : isFailedResult(results[i])}
     IN IF failedIndices = {} \/ FAILURE_CONFIRM_RETRIES < 1
        THEN /\ batchPhase' = "returned"
             /\ UNCHANGED <<task, attempts>>
        ELSE /\ batchPhase' = "confirm"
             /\ task' = [i \in ProbeTargets |->
                   IF i \in failedIndices
                   THEN [state |-> "inflight", attempt |-> 0, run |-> NoRun, threw |-> FALSE,
                         last |-> results[i].status]
                   ELSE task[i]]
             /\ attempts' = [i \in ProbeTargets |->
                   IF i \in failedIndices THEN attempts[i] + 1 ELSE attempts[i]]
  /\ UNCHANGED <<results, targetMeta, lease, clock, leaseVars, pollerVars, cacheVars, configVars, officialVars, readVars>>

\* Promise.all of the confirmation pass resolved: the results are returned
BatchReturns ==
  /\ batchPhase = "confirm"
  /\ \A i \in ProbeTargets : task[i].state = "settled"
  /\ batchPhase' = "returned"
  /\ UNCHANGED <<task, results, attempts, targetMeta, lease, clock, leaseVars, pollerVars, cacheVars, configVars, officialVars, readVars>>

NextProbe ==
  \/ RunProviderChecks
  \/ \E i \in ProbeTargets : \E o \in ProviderOutcomes(targetMeta[i]) : ProbeSettles(i, o)
  \/ ConfirmPass
  \/ BatchReturns

SpecProbe == InitProbe /\ [][NextProbe]_vars

(***************************************************************************)
(* Specification SpecClassify: single checkWithAiSdk calls whose request   *)
(* completes, over every combination of stream error, collected text and   *)
(* latency.                                                                *)
(***************************************************************************)
StreamError == [name |-> "Error", message |-> "bad gateway"]

\* requests that end before the timeout without throwing: onError was or was
\* not called, and the text collected is empty, valid or invalid
StreamedRuns(meta) ==
  {[thrown |-> FALSE, streamError |-> se, error |-> IF se THEN StreamError ELSE NoError,
    text |-> tx, latencyMs |-> l, timedOut |-> FALSE] :
     se \in BOOLEAN, tx \in {"empty", "valid", "invalid"},
     l \in {x \in LatencySamples : x < timeoutMsOf(meta)}}

InitClassify ==
  /\ lease = InitialLeaseRow
  /\ clock = BootTime
  /\ leaseReq = [n \in Nodes |-> NoReq]
  /\ leaseRes = [n \in Nodes |-> NoRes]
  /\ grants = {}
  /\ PollerIdle
  /\ \E meta \in {m \in MetaSamples : m.behaviour = "any"} :
       targetMeta = [i \in ProbeTargets |->
          IF i = "p"
          THEN meta
          ELSE [degraded_threshold_ms |-> Unset, timeout_ms |-> Unset, behaviour |-> "any"]]
  /\ batchPhase = "idle"
  /\ task = [i \in ProbeTargets |-> IdleTask]
  /\ results = [i \in ProbeTargets |-> NoResult]
  /\ attempts = [i \in ProbeTargets |-> 0]
  /\ CacheIdle
  /\ OfficialIdle
  /\ ReadIdle
  /\ ConfigIdle

\* one call of checkWithAiSdk for target i, from the request to the returned CheckResult
CheckWithAiSdk(i, run) ==
  /\ task[i].state = "idle"
  /\ run \in StreamedRuns(targetMeta[i])
  /\ task' = [task EXCEPT ![i] = [state |-> "settled", attempt |-> 0, run |-> run,
                                  threw |-> FALSE,
                                  last |-> checkWithAiSdk(targetMeta[i], run).status]]
  /\ results' = [results EXCEPT ![i] = checkWithAiSdk(targetMeta[i], run)]
  /\ attempts' = [attempts EXCEPT ![i] = 1]
  /\ UNCHANGED <<batchPhase, targetMeta, lease, clock, leaseVars, pollerVars, cacheVars,
                 configVars, officialVars, readVars>>

NextClassify ==
  \E i \in ProbeTargets : \E run \in StreamedRuns(targetMeta[i]) : CheckWithAiSdk(i, run)

SpecClassify == InitClassify /\ [][NextClassify]_vars

(***************************************************************************)
(* Specification SpecLease: concurrent callers of the lease store.  A call *)
(* captures now/expiresAt in the caller, the conditional UPDATE is applied *)
(* by the store atomically at a later moment.                              *)
(***************************************************************************)
InitLease ==
  /\ lease = InitialLeaseRow
  /\ clock = BootTime
  /\ leaseReq = [n \in Nodes |-> NoReq]
  /\ leaseRes = [n \in Nodes |-> NoRes]
  /\ grants = {}
  /\ PollerIdle
  /\ ProbeIdle
  /\ CacheIdle
  /\ OfficialIdle
  /\ ReadIdle
  /\ ConfigIdle

\* the caller evaluates new Date() and now + ttl, then awaits the store
LeaseCall(n, kind) ==
  /\ leaseReq[n].kind = "none"
  /\ leaseReq' = [leaseReq EXCEPT ![n] =
        [kind |-> kind, now |-> clock, expiresAt |-> clock + LEASE_TTL_MS,
         sawExpired |-> lease.lease_expires_at < clock]]
  /\ UNCHANGED <<lease, clock, leaseRes, grants, pollerVars, probeVars, cacheVars, configVars, officialVars, readVars>>

\* the store runs the conditional UPDATE of the pending call
LeaseLand(n, dbError) ==
  /\ leaseReq[n].kind # "none"
  /\ LET r == leaseReq[n]
         out == IF r.kind = "acquire"
                THEN tryAcquirePollerLease(lease, n, r.now, r.expiresAt, dbError)
                ELSE tryRenewPollerLease(lease, n, r.now, r.expiresAt, dbError)
     IN /\ lease' = out.row
        /\ leaseRes' = [leaseRes EXCEPT ![n] =
              [kind |-> r.kind, now |-> r.now, ok |-> out.ok, sawExpired |-> r.sawExpired,
               err |-> dbError]]
        /\ grants' = IF out.ok
                     THEN grants \cup {[node |-> n, from |-> r.now, to |-> r.expiresAt]}
                     ELSE grants
  /\ leaseReq' = [leaseReq EXCEPT ![n] = NoReq]
  /\ UNCHANGED <<clock, pollerVars, probeVars, cacheVars, configVars, officialVars, readVars>>

ClockAdvance ==
  /\ clock < MaxLeaseClock
  /\ clock' = clock + getPollingIntervalMs
  /\ UNCHANGED <<lease, leaseReq, leaseRes, grants, pollerVars, probeVars, cacheVars, configVars, officialVars, readVars>>

NextLease ==
  \/ \E n \in Nodes, kind \in {"acquire", "renew"} : LeaseCall(n, kind)
  \/ \E n \in Nodes, dbError \in BOOLEAN : LeaseLand(n, dbError)
  \/ ClockAdvance

SpecLease == InitLease /\ [][NextLease]_vars

(***************************************************************************)
(* Specification SpecLeaseRow: the lease table starts empty; nodes call    *)
(* ensurePollerLeaseRow, acquire and renew in any order.                   *)
(***************************************************************************)
\* the table holds no row with lease_key = 'poller'
NoLeaseRow == [leader_id |-> "absent", lease_expires_at |-> INITIAL_LEASE_EXPIRES_AT]

\* INSERT under the unique lease_key: the row is stored, or the store answers
\* with the duplicate-key error 23505, or with another error
InsertLeaseRow(table, row, dbError) ==
  IF dbError THEN [error |-> "other", table |-> table]
  ELSE IF table = NoLeaseRow THEN [error |-> "none", table |-> row]
  ELSE [error |-> "23505", table |-> table]

\* an initialisation that stores its row whether or not one exists (upsert)
ensurePollerLeaseRowUpsert(table, dbError) ==
  IF dbError THEN [error |-> "other", table |-> table]
  ELSE [error |-> "none", table |-> InitialLeaseRow]

\* insert({ lease_key, leader_id: null, lease_expires_at: new Date(0) });
\* an error other than the duplicate key is logged
ensurePollerLeaseRow(table, dbError) ==
  InsertLeaseRow(table, InitialLeaseRow, dbError)

InitLeaseRow ==
  /\ lease = NoLeaseRow
  /\ clock = BootTime
  /\ leaseReq = [n \in Nodes |-> NoReq]
  /\ leaseRes = [n \in Nodes |-> NoRes]
  /\ grants = {}
  /\ PollerIdle
  /\ ProbeIdle
  /\ CacheIdle
  /\ OfficialIdle
  /\ ReadIdle
  /\ ConfigIdle

\* node n calls ensurePollerLeaseRow and the store answers
EnsurePollerLeaseRow(n, dbError) ==
  /\ leaseReq[n].kind = "none"
  /\ LET out == ensurePollerLeaseRow(lease, dbError)
     IN /\ lease' = out.table
        /\ leaseRes' = [leaseRes EXCEPT ![n] =
              [kind |-> "ensure", now |-> clock, ok |-> out.error = "none",
               sawExpired |-> FALSE, err |-> out.error = "other"]]
  /\ UNCHANGED <<clock, leaseReq, grants, pollerVars, probeVars, cacheVars, configVars,
                 officialVars, readVars>>

\* the conditional UPDATE of a pending call: on an empty table it matches no row
LeaseLandOnTable(n) ==
  \/ /\ lease # NoLeaseRow
     /\ LeaseLand(n, FALSE)
  \/ /\ lease = NoLeaseRow
     /\ leaseReq[n].kind # "none"
     /\ leaseRes' = [leaseRes EXCEPT ![n] =
           [kind |-> leaseReq[n].kind, now |-> leaseReq[n].now, ok |-> FALSE,
            sawExpired |-> FALSE, err |-> FALSE]]
     /\ leaseReq' = [leaseReq EXCEPT ![n] = NoReq]
     /\ UNCHANGED <<lease, clock, grants, pollerVars, probeVars, cacheVars, configVars,
                    officialVars, readVars>>

NextLeaseRow ==
  \/ \E n \in Nodes, dbError \in BOOLEAN : EnsurePollerLeaseRow(n, dbError)
  \/ \E n \in Nodes, kind \in {"acquire", "renew"} : LeaseCall(n, kind)
  \/ \E n \in Nodes : LeaseLandOnTable(n)
  \/ ClockAdvance

SpecLeaseRow == InitLeaseRow /\ [][NextLeaseRow]_vars

(***************************************************************************)
(* lib/core/poller-leadership.ts: acquire-or-renew with the node's own id, *)
(* now = Date.now() and expiry = now + ttl; the outcome is kept in the     *)
(* process-wide role.                                                      *)
(***************************************************************************)
\* elect = "ok": the store answers; "error": the store reports an error, both
\* lease calls return false; "throw": the election itself rejects
ensurePollerLeadership(row, n, now, elect) ==
  LET renewed == tryRenewPollerLease(row, n, now, now + LEASE_TTL_MS, elect # "ok")
      acquired == tryAcquirePollerLease(row, n, now, now + LEASE_TTL_MS, elect # "ok")
  IN IF renewed.ok THEN [role |-> "leader", row |-> renewed.row]
     ELSE IF acquired.ok THEN [role |-> "leader", row |-> acquired.row]
     ELSE [role |-> "standby", row |-> row]

ElectOutcomes == {"ok", "error", "throw"}

(***************************************************************************)
(* lib/core/global-state.ts                                                *)
(***************************************************************************)
\* getConfigLastCheckedStore()[configId] ?? 0
getConfigLastCheckedAt(store, id) == store[id]

\* a store update that stamps every target, probed or not
setEveryLastCheckedAt(store, ids, timestamp) == [id \in ConfigIds |-> timestamp]

setConfigLastCheckedAt(store, ids, timestamp) ==
  [id \in ConfigIds |-> IF id \in ids THEN timestamp ELSE store[id]]

pruneConfigLastChecked(store, activeIds) ==
  [id \in ConfigIds |-> IF id \in activeIds THEN store[id] ELSE 0]

(***************************************************************************)
(* lib/core/poller.ts                                                      *)
(***************************************************************************)
POLL_INTERVAL_MS == getPollingIntervalMs

\* (now - lastChecked) > intervalMs
DueStrict(lc, now, intervalMs) == lc = 0 \/ (now - lc) > intervalMs

\* lastChecked === 0 || (now - lastChecked) >= intervalMs
Due(lc, now, intervalMs) == lc = 0 \/ (now - lc) >= intervalMs

\* a due-filter that lets no target through
filterNothingDue(configs, now, store) == {}

filterDueConfigs(configs, now, store) ==
  {id \in configs : Due(getConfigLastCheckedAt(store, id), now, IntervalOf(id))}

\* null is modelled by Unset
getNextSupplementaryDelayMs(configs, now, store) ==
  LET short == {id \in configs : /\ IntervalOf(id) < POLL_INTERVAL_MS
                                 /\ getConfigLastCheckedAt(store, id) # 0}
      earliest == MinOf({getConfigLastCheckedAt(store, id) + IntervalOf(id) : id \in short})
  IN IF short = {} THEN Unset
     ELSE IF earliest - now > 5000 THEN earliest - now ELSE 5000

\* a scheduler without the supplementary timer
NoSupplementaryTick(activeConfigs, now, store) == NoTimer

\* the firing time of the timer this call leaves armed (NoTimer: none)
scheduleSupplementaryTick(activeConfigs, now, store) ==
  LET delayMs == getNextSupplementaryDelayMs(activeConfigs, now, store)
  IN IF delayMs = Unset THEN NoTimer
     ELSE IF delayMs >= POLL_INTERVAL_MS - 2000 THEN NoTimer
     ELSE now + delayMs

\* loadProviderConfigsFromDB: the enabled rows, [] on any store error
loadProviderConfigsFromDB(loadOk) ==
  IF loadOk THEN {id \in ConfigIds : checkConfigs[id].enabled} ELSE {}

\* a tick that does not look at the running flag
NoOverlapGuard(n) == FALSE

\* if (globalThis.__checkCxPollerRunning) { ...; return; }
OverlapGuard(n) == running[n]

SchedulerBatches(n) == {b \in batches[n] : b.trigger # "dashboard"}

\* clearTimeout(handle) on the timer table; the call is made for a set handle only
clearTimeout(table, handle) ==
  IF handle # NoTimer THEN [table EXCEPT !.timeouts = @ - 1] ELSE table

\* setTimeout on the timer table (handle NoTimer: the call is not made)
setTimeout(table, handle) ==
  IF handle # NoTimer THEN [table EXCEPT !.timeouts = @ + 1] ELSE table

\* a one-shot timer has fired and is gone
timeoutFired(table) == [table EXCEPT !.timeouts = @ - 1]

\* the timer table of node n after a tick: the one-shot timer that started it
\* is gone, and a tick that reaches scheduleSupplementaryTick clears the
\* timer the variable holds before it arms the next
TimersAfterTick(n, trigger) ==
  LET fired == IF trigger = "supplementary" THEN timeoutFired(timers[n]) ELSE timers[n]
      held == IF trigger = "supplementary" THEN NoTimer ELSE supplementaryTimer[n]
  IN IF event'.outcome = "noDue"
     THEN setTimeout(clearTimeout(fired, held), supplementaryTimer'[n])
     ELSE fired

\* a batch this long or shorter is a fast one
FastBatchMs == 2 * 1000

\* what disturbs a tick: its election does not reach the store ("election"),
\* it has passed the running guard and the configs cannot be loaded ("load"),
\* the batch it starts is not a fast one ("slow")
tickFaults(n, elect, loadOk, duration) ==
  LET elected == ensurePollerLeadership(lease, n, clock, elect)
      loads == elect # "throw" /\ elected.role = "leader" /\ ~running[n]
      allConfigs == loadProviderConfigsFromDB(loadOk)
      activeConfigs == {id \in allConfigs : ~checkConfigs[id].is_maintenance}
      dueConfigs == filterDueConfigs(activeConfigs, clock,
                        pruneConfigLastChecked(lastChecked[n], activeConfigs))
  IN (IF elect # "ok" THEN {"election"} ELSE {})
     \cup (IF loads /\ ~loadOk THEN {"load"} ELSE {})
     \cup (IF loads /\ dueConfigs # {} /\ duration > FastBatchMs THEN {"slow"} ELSE {})

\* tick(), from its start to the await of runProviderChecks (or to its return)
tick(n, trigger, elect, loadOk, duration) ==
  LET elected == ensurePollerLeadership(lease, n, clock, elect)
      allConfigs == loadProviderConfigsFromDB(loadOk)
      activeConfigs == {id \in allConfigs : ~checkConfigs[id].is_maintenance}
      ev(outcome, due) == [node |-> n, kind |-> trigger, outcome |-> outcome,
                           now |-> clock, due |-> due,
                           loaded |-> outcome \in {"noActive", "noDue", "started"},
                           active |-> IF outcome \in {"noActive", "noDue", "started"}
                                      THEN activeConfigs ELSE {}]
      pruned == pruneConfigLastChecked(lastChecked[n], activeConfigs)
      dueConfigs == filterDueConfigs(activeConfigs, clock, pruned)
  IN IF elect = "throw"
     THEN /\ event' = ev("electionFailed", {})
          /\ UNCHANGED <<lease, role, running, lastChecked, batches>>
          /\ supplementaryTimer' = IF trigger = "supplementary"
                THEN [supplementaryTimer EXCEPT ![n] = NoTimer] ELSE supplementaryTimer
     ELSE /\ lease' = elected.row
          /\ role' = [role EXCEPT ![n] = elected.role]
          /\ IF elected.role # "leader"
             THEN /\ event' = ev("standby", {})
                  /\ UNCHANGED <<running, lastChecked, batches>>
                  /\ supplementaryTimer' = IF trigger = "supplementary"
                        THEN [supplementaryTimer EXCEPT ![n] = NoTimer]
                        ELSE supplementaryTimer
             ELSE IF OverlapGuard(n)
             THEN /\ event' = ev("overlap", {})
                  /\ UNCHANGED <<running, lastChecked, batches>>
                  /\ supplementaryTimer' = IF trigger = "supplementary"
                        THEN [supplementaryTimer EXCEPT ![n] = NoTimer]
                        ELSE supplementaryTimer
             ELSE IF activeConfigs = {}
             THEN /\ event' = ev("noActive", {})
                  /\ UNCHANGED <<running, lastChecked, batches>>
                  /\ supplementaryTimer' = IF trigger = "supplementary"
                        THEN [supplementaryTimer EXCEPT ![n] = NoTimer]
                        ELSE supplementaryTimer
             ELSE IF dueConfigs = {}
             THEN /\ event' = ev("noDue", {})
                  /\ lastChecked' = [lastChecked EXCEPT ![n] = pruned]
                  /\ supplementaryTimer' = [supplementaryTimer EXCEPT ![n] =
                        scheduleSupplementaryTick(activeConfigs, clock, pruned)]
                  /\ UNCHANGED <<running, batches>>
             ELSE /\ event' = ev("started", dueConfigs)
                  /\ running' = [running EXCEPT ![n] = TRUE]
                  /\ lastChecked' = [lastChecked EXCEPT ![n] = pruned]
                  /\ batches' = [batches EXCEPT ![n] = @ \cup
                        {[trigger |-> trigger, ids |-> dueConfigs, active |-> activeConfigs,
                          startedAt |-> clock, endsAt |-> clock + duration]}]
                  /\ supplementaryTimer' = IF trigger = "supplementary"
                        THEN [supplementaryTimer EXCEPT ![n] = NoTimer]
                        ELSE supplementaryTimer

\* setInterval(..., POLL_INTERVAL_MS): the firing after the one at `now`
NextIntervalFire(now) == now + POLL_INTERVAL_MS

\* the setInterval callback
MainTimerFire(n, elect, loadOk, duration) ==
  /\ pollerTimer[n] = clock
  /\ pollerTimer' = [pollerTimer EXCEPT ![n] = NextIntervalFire(clock)]
  /\ tick(n, "main", elect, loadOk, duration)
  /\ timers' = [timers EXCEPT ![n] = TimersAfterTick(n, "main")]
  /\ faults' = faults \cup tickFaults(n, elect, loadOk, duration)
  /\ UNCHANGED <<clock, history, leaseVars, probeVars, cacheVars, configVars, officialVars, readVars>>

\* the setTimeout callback: supplementaryTimer = undefined; tick()
SupplementaryTimerFire(n, elect, loadOk, duration) ==
  /\ supplementaryTimer[n] = clock
  /\ tick(n, "supplementary", elect, loadOk, duration)
  /\ timers' = [timers EXCEPT ![n] = TimersAfterTick(n, "supplementary")]
  /\ faults' = faults \cup tickFaults(n, elect, loadOk, duration)
  /\ UNCHANGED <<clock, pollerTimer, history, leaseVars, probeVars, cacheVars, configVars, officialVars, readVars>>

AppendOutcomes == {"ok", "error", "throw"}

\* a tick whose running flag stays set when the history append throws
RunningWithoutFinally(append) == append = "throw"

\* finally { globalThis.__checkCxPollerRunning = false }: the flag after the
\* tick, whatever the append did
RunningAfterTick(append) == FALSE

\* tick(), from the return of runProviderChecks to the end of its finally block
TickBatchDone(n, b, append) ==
  /\ b \in SchedulerBatches(n)
  /\ b.endsAt = clock
  /\ batches' = [batches EXCEPT ![n] = @ \ {b}]
  /\ lastChecked' = [lastChecked EXCEPT ![n] = setConfigLastCheckedAt(@, b.ids, clock)]
  /\ history' = IF append = "ok" THEN history \cup b.ids ELSE history
  /\ supplementaryTimer' =
       IF append = "throw" THEN supplementaryTimer
       ELSE [supplementaryTimer EXCEPT ![n] =
               scheduleSupplementaryTick(b.active, clock, lastChecked'[n])]
  /\ timers' =
       IF append = "throw" THEN timers
       ELSE [timers EXCEPT ![n] =
               setTimeout(clearTimeout(@, supplementaryTimer[n]), supplementaryTimer'[n])]
  /\ running' = [running EXCEPT ![n] = RunningAfterTick(append)]
  /\ event' = [node |-> n, kind |-> "batchDone", outcome |-> append, now |-> clock,
               due |-> b.ids, loaded |-> FALSE, active |-> {}]
  /\ faults' = faults \cup (IF append = "throw" THEN {"append"} ELSE {})
  /\ UNCHANGED <<lease, clock, role, pollerTimer, leaseVars, probeVars, cacheVars, configVars, officialVars, readVars>>

\* the instants at which something is scheduled to happen
EventTimes ==
  {pollerTimer[n] : n \in Nodes} \cup {supplementaryTimer[n] : n \in Nodes}
    \cup UNION {{b.endsAt : b \in batches[n]} : n \in Nodes}

\* time passes up to the next timer or the next completion
AdvanceTime ==
  /\ \A t \in EventTimes : t = NoTimer \/ t > clock
  /\ \E t \in EventTimes : t > clock
  /\ clock' = MinOf({t \in EventTimes : t > clock})
  /\ clock' <= MaxTime
  /\ UNCHANGED <<lease, leaseVars, pollerVars, probeVars, cacheVars, configVars, officialVars, readVars>>

\* the offsets between the starts of the processes
StartOffsets == {0, 7 * 1000}

\* module initialisation of every process: the interval timer is armed, the
\* role is still the default
Init ==
  /\ lease = InitialLeaseRow
  /\ clock = BootTime
  /\ leaseReq = [n \in Nodes |-> NoReq]
  /\ leaseRes = [n \in Nodes |-> NoRes]
  /\ grants = {}
  /\ role = [n \in Nodes |-> "standby"]
  /\ running = [n \in Nodes |-> FALSE]
  /\ lastChecked = [n \in Nodes |-> [id \in ConfigIds |-> 0]]
  /\ \E off \in StartOffsets :
       pollerTimer = [n \in Nodes |->
          BootTime + POLL_INTERVAL_MS + (IF n = "a" THEN 0 ELSE off)]
  /\ supplementaryTimer = [n \in Nodes |-> NoTimer]
  /\ timers = [n \in Nodes |-> StartedTimers]
  /\ batches = [n \in Nodes |-> {}]
  /\ history = {}
  /\ event = NoEvent
  /\ faults = {}
  /\ ProbeIdle
  /\ CacheIdle
  /\ OfficialIdle
  /\ ReadIdle
  /\ ConfigIdle

Next ==
  \/ \E n \in Nodes, elect \in ElectOutcomes, loadOk \in BOOLEAN, d \in BatchDurations :
        MainTimerFire(n, elect, loadOk, d)
  \/ \E n \in Nodes, elect \in ElectOutcomes, loadOk \in BOOLEAN, d \in BatchDurations :
        SupplementaryTimerFire(n, elect, loadOk, d)
  \/ \E n \in Nodes, append \in AppendOutcomes : \E b \in batches[n] :
        TickBatchDone(n, b, append)
  \/ AdvanceTime

Spec == Init /\ [][Next]_vars

(***************************************************************************)
(* Specification SpecFailover: the scheduler of Spec in which the process  *)
(* that leads may die.  From then on the survivor reaches the lease store  *)
(* and the target store, and timers and completions are not postponed for  *)
(* ever.                                                                   *)
(***************************************************************************)
\* the processes that have died
Stopped == {n \in Nodes : pollerTimer[n] = NoTimer}

\* time left to the survivor after the latest possible death: the lease of
\* the dead leader runs out, then the survivor's ticks
MaxFailoverTime == MaxTime + LEASE_TTL_MS + 3 * POLL_INTERVAL_MS

\* the leading process dies: its timers, its batches and its memory are gone,
\* the lease row stays as the process left it
Crash(n) ==
  /\ Stopped = {}
  /\ role[n] = "leader"
  /\ lease.leader_id = n
  /\ lease.lease_expires_at > clock
  /\ pollerTimer' = [pollerTimer EXCEPT ![n] = NoTimer]
  /\ supplementaryTimer' = [supplementaryTimer EXCEPT ![n] = NoTimer]
  /\ timers' = [timers EXCEPT ![n] = NoTimers]
  /\ batches' = [batches EXCEPT ![n] = {}]
  /\ running' = [running EXCEPT ![n] = FALSE]
  /\ role' = [role EXCEPT ![n] = "standby"]
  /\ lastChecked' = [lastChecked EXCEPT ![n] = [id \in ConfigIds |-> 0]]
  /\ event' = [node |-> n, kind |-> "crash", outcome |-> "none", now |-> clock, due |-> {},
               loaded |-> FALSE, active |-> {}]
  /\ UNCHANGED <<lease, clock, history, faults, leaseVars, probeVars, cacheVars, configVars, officialVars, readVars>>

\* what an election may meet: anything while every process lives, a reachable
\* store once the leader has died
ElectOutcomesNow == IF Stopped = {} THEN ElectOutcomes ELSE {"ok"}

AdvanceTimeFailover ==
  /\ \A t \in EventTimes : t = NoTimer \/ t > clock
  /\ \E t \in EventTimes : t > clock
  /\ clock' = MinOf({t \in EventTimes : t > clock})
  /\ clock' <= (IF Stopped = {} THEN MaxTime ELSE MaxFailoverTime)
  /\ UNCHANGED <<lease, leaseVars, pollerVars, probeVars, cacheVars, configVars, officialVars, readVars>>

NextFailover ==
  \/ \E n \in Nodes, elect \in ElectOutcomesNow, d \in BatchDurations :
        MainTimerFire(n, elect, TRUE, d)
  \/ \E n \in Nodes, elect \in ElectOutcomesNow, d \in BatchDurations :
        SupplementaryTimerFire(n, elect, TRUE, d)
  \/ \E n \in Nodes : \E b \in batches[n] : TickBatchDone(n, b, "ok")
  \/ \E n \in Nodes : Crash(n)
  \/ AdvanceTimeFailover

SpecFailover == Init /\ [][NextFailover]_vars /\ WF_vars(NextFailover)

(***************************************************************************)
(* Specification SpecSupplementary: the scheduler of Spec with batches     *)
(* that answer quickly or shortly before the default probe timeout, so     *)
(* that a batch may end anywhere between two global ticks.  The lease      *)
(* store and the target store answer.                                      *)
(***************************************************************************)
\* a quick answer, or endpoints that take 38 s of the 45 s they are given
SlowBatchDurations == {2 * 1000, DEFAULT_TIMEOUT_MS - 7 * 1000}

NextSupplementary ==
  \/ \E n \in Nodes, d \in SlowBatchDurations : MainTimerFire(n, "ok", TRUE, d)
  \/ \E n \in Nodes, d \in SlowBatchDurations : SupplementaryTimerFire(n, "ok", TRUE, d)
  \/ \E n \in Nodes, append \in AppendOutcomes : \E b \in batches[n] :
        TickBatchDone(n, b, append)
  \/ AdvanceTime

SpecSupplementary == Init /\ [][NextSupplementary]_vars

(***************************************************************************)
(* Specification SpecTargets: the scheduler of Spec with quick batches and *)
(* a History Store that answers, in a deployment whose enabled targets are *)
(* c, l and m, while an operator disables and enables l and switches the   *)
(* maintenance flag of c.  An election succeeds or meets a store error.    *)
(***************************************************************************)
\* the flags of the rows when the schedulers start
TargetsAtStart ==
  [id \in ConfigIds |-> [enabled |-> id # "g", is_maintenance |-> ConfigRows[id].is_maintenance]]

InitTargets ==
  /\ lease = InitialLeaseRow
  /\ clock = BootTime
  /\ leaseReq = [n \in Nodes |-> NoReq]
  /\ leaseRes = [n \in Nodes |-> NoRes]
  /\ grants = {}
  /\ role = [n \in Nodes |-> "standby"]
  /\ running = [n \in Nodes |-> FALSE]
  /\ lastChecked = [n \in Nodes |-> [id \in ConfigIds |-> 0]]
  /\ \E off \in StartOffsets :
       pollerTimer = [n \in Nodes |->
          BootTime + POLL_INTERVAL_MS + (IF n = "a" THEN 0 ELSE off)]
  /\ supplementaryTimer = [n \in Nodes |-> NoTimer]
  /\ timers = [n \in Nodes |-> StartedTimers]
  /\ batches = [n \in Nodes |-> {}]
  /\ history = {}
  /\ event = NoEvent
  /\ faults = {}
  /\ ProbeIdle
  /\ CacheIdle
  /\ OfficialIdle
  /\ ConfigIdle
  /\ checkHistory = {}
  /\ checkConfigs = TargetsAtStart
  /\ fetchOptions = [limitPerConfig |-> Unset, allowedIds |-> [given |-> FALSE, ids |-> {}]]
  /\ fetched = [path \in {"rpc", "fallback", "error"} |-> [done |-> FALSE, snapshot |-> <<>>]]

\* the operator sets the enabled flag of a row (a removed row is one that is
\* no longer among the enabled rows)
SetEnabled(id, value) ==
  /\ checkConfigs[id].enabled # value
  /\ checkConfigs' = [checkConfigs EXCEPT ![id].enabled = value]
  /\ UNCHANGED <<lease, clock, leaseVars, pollerVars, probeVars, cacheVars, configVars,
                 officialVars, checkHistory, fetchOptions, fetched>>

\* the operator sets the is_maintenance flag of a row
SetMaintenance(id, value) ==
  /\ checkConfigs[id].is_maintenance # value
  /\ checkConfigs' = [checkConfigs EXCEPT ![id].is_maintenance = value]
  /\ UNCHANGED <<lease, clock, leaseVars, pollerVars, probeVars, cacheVars, configVars,
                 officialVars, checkHistory, fetchOptions, fetched>>

NextTargets ==
  \/ \E n \in Nodes, elect \in {"ok", "error"} : MainTimerFire(n, elect, TRUE, FastBatchMs)
  \/ \E n \in Nodes, elect \in {"ok", "error"} :
        SupplementaryTimerFire(n, elect, TRUE, FastBatchMs)
  \/ \E n \in Nodes : \E b \in batches[n] : TickBatchDone(n, b, "ok")
  \/ \E value \in BOOLEAN : SetEnabled("l", value)
  \/ \E value \in BOOLEAN : SetMaintenance("c", value)
  \/ AdvanceTime

SpecTargets == InitTargets /\ [][NextTargets]_vars

(***************************************************************************)
(* Specification SpecHandover: the deployment of SpecTargets with rows     *)
(* that nobody edits.                                                      *)
(***************************************************************************)
NextHandover ==
  \/ \E n \in Nodes, elect \in {"ok", "error"} : MainTimerFire(n, elect, TRUE, FastBatchMs)
  \/ \E n \in Nodes, elect \in {"ok", "error"} :
        SupplementaryTimerFire(n, elect, TRUE, FastBatchMs)
  \/ \E n \in Nodes : \E b \in batches[n] : TickBatchDone(n, b, "ok")
  \/ AdvanceTime

SpecHandover == InitTargets /\ [][NextHandover]_vars

(***************************************************************************)
(* lib/core/global-state.ts (ping cache) and lib/core/dashboard-data.ts    *)
(***************************************************************************)
MaxCalls == 2

PING_CACHE_MAX_SIZE == 10
PING_CACHE_TTL_MS == 10 * 60 * 1000

\* Date.now() when the process serves its first request: the epoch lies more
\* than PING_CACHE_TTL_MS in the past
EpochNow == 2 * PING_CACHE_TTL_MS

\* how far the clock runs while requests are served
MaxCacheTime == 2 * PING_CACHE_TTL_MS + getPollingIntervalMs

\* the process that serves the dashboard
Self == "a"

\* refresh modes of loadDashboardData
RefreshModes == {"always", "missing", "never"}

\* the enabled check_configs rows at the time of a call
ConfigSets == {InitialEnabled, InitialEnabled \ {"m"}}

\* { lastPingAt: 0 }
NewCacheEntry == [lastPingAt |-> 0, history |-> FALSE, inflight |-> 0]

KeysOf(store) == {k \in DOMAIN store : store[k] # 0}

\* now - entry.lastPingAt > PING_CACHE_TTL_MS
Expired(entry, now) == now - entry.lastPingAt > PING_CACHE_TTL_MS

\* pruneCache: delete the expired entries, then the oldest ones beyond
\* PING_CACHE_MAX_SIZE
pruneCache(store, entries, now) ==
  LET kept == [k \in DOMAIN store |->
                 IF store[k] # 0 /\ Expired(entries[store[k]], now) THEN 0 ELSE store[k]]
      excess == Cardinality(KeysOf(kept)) - PING_CACHE_MAX_SIZE
      toRemove == IF excess <= 0 THEN {}
                  ELSE CHOOSE R \in SUBSET KeysOf(kept) :
                         /\ Cardinality(R) = excess
                         /\ \A r \in R : \A k \in KeysOf(kept) \ R :
                              entries[kept[r]].lastPingAt <= entries[kept[k]].lastPingAt
  IN [k \in DOMAIN store |-> IF k \in toRemove THEN 0 ELSE kept[k]]

\* getPingCacheEntry(key): prune, create the entry when the key has none,
\* return it
getPingCacheEntry(store, entries, key, now) ==
  LET pruned == pruneCache(store, entries, now)
  IN IF pruned[key] = 0
     THEN [store |-> [pruned EXCEPT ![key] = Len(entries) + 1],
           entries |-> Append(entries, NewCacheEntry),
           entry |-> Len(entries) + 1]
     ELSE [store |-> pruned, entries |-> entries, entry |-> pruned[key]]

\* a process that has served no request: its role is the default, standby,
\* and its scheduler has not run
InitCache ==
  /\ lease = InitialLeaseRow
  /\ clock = EpochNow
  /\ leaseReq = [n \in Nodes |-> NoReq]
  /\ leaseRes = [n \in Nodes |-> NoRes]
  /\ grants = {}
  /\ PollerIdle
  /\ ProbeIdle
  /\ CacheIdle
  /\ OfficialIdle
  /\ ReadIdle
  /\ ConfigIdle

cacheFrame == <<lease, leaseVars, role, running, lastChecked, pollerTimer,
                supplementaryTimer, timers, batches, event, faults, probeVars, configVars, officialVars, readVars>>

\* loadDashboardData up to `await readFilteredHistory()`: the configs are
\* loaded, the cache key is built from them and the entry is obtained
LoadDashboardData(u, mode, configs) ==
  /\ callers[u].pc = "idle"
  /\ calls < MaxCalls
  /\ LET got == getPingCacheEntry(pingCacheStore, cacheEntries, configs, clock)
     IN /\ pingCacheStore' = got.store
        /\ cacheEntries' = got.entries
        /\ callers' = [callers EXCEPT ![u] =
              [pc |-> "readHistory", configs |-> configs, entry |-> got.entry, mode |-> mode,
               awaiting |-> 0, served |-> "none"]]
  /\ calls' = calls + 1
  /\ UNCHANGED <<clock, history, refreshes, cacheFrame>>

\* every mode but "never" refreshes
NeedsRefreshUnlessNever(mode, configs, stored) == mode # "never"

\* refreshMode === "always", or "missing" with no history for the targets
NeedsRefresh(mode, configs, stored) ==
  \/ mode = "always"
  \/ mode = "missing" /\ configs # {} /\ stored \cap configs = {}

\* loadDashboardData from the history read to its next await: the refresh
\* mode is applied and refreshHistory runs up to `await inflightPromise`
RefreshHistory(u) ==
  /\ callers[u].pc = "readHistory"
  /\ LET c == callers[u]
         entry == cacheEntries[c.entry]
     IN IF ~NeedsRefresh(c.mode, c.configs, history)
        THEN /\ callers' = [callers EXCEPT ![u] = [IdleCaller EXCEPT !.served = "history"]]
             /\ UNCHANGED <<cacheEntries, refreshes>>
        ELSE IF entry.history /\ clock - entry.lastPingAt < getPollingIntervalMs
        THEN /\ callers' = [callers EXCEPT ![u] = [IdleCaller EXCEPT !.served = "cache"]]
             /\ UNCHANGED <<cacheEntries, refreshes>>
        ELSE IF entry.inflight # 0
        THEN /\ callers' = [callers EXCEPT ![u] =
                   [c EXCEPT !.pc = "joined", !.awaiting = entry.inflight]]
             /\ UNCHANGED <<cacheEntries, refreshes>>
        ELSE /\ refreshes' = Append(refreshes,
                   [configs |-> c.configs, entry |-> c.entry, node |-> Self,
                    settled |-> "pending"])
             /\ cacheEntries' = [cacheEntries EXCEPT ![c.entry].inflight = Len(refreshes) + 1]
             /\ callers' = [callers EXCEPT ![u] =
                   [c EXCEPT !.pc = "owner", !.awaiting = Len(refreshes) + 1]]
  /\ UNCHANGED <<clock, history, pingCacheStore, calls, cacheFrame>>

\* the body of inflightPromise after `await runProviderChecks(configs)`:
\* appendHistory, then the entry the closure holds is updated
RefreshSettles(r, append) ==
  /\ r \in DOMAIN refreshes
  /\ refreshes[r].settled = "pending"
  /\ IF append = "ok"
     THEN /\ history' = history \cup refreshes[r].configs
          /\ cacheEntries' = [cacheEntries EXCEPT
                ![refreshes[r].entry].history = TRUE,
                ![refreshes[r].entry].lastPingAt = clock]
          /\ refreshes' = [refreshes EXCEPT ![r].settled = "resolved"]
     ELSE /\ refreshes' = [refreshes EXCEPT ![r].settled = "rejected"]
          /\ UNCHANGED <<history, cacheEntries>>
  /\ UNCHANGED <<clock, pingCacheStore, callers, calls, cacheFrame>>

\* a refreshHistory without its finally block: the marker stays
inflightKept(pc, inflight, awaiting) == inflight

\* finally { if (cacheEntry.inflight === inflightPromise) cacheEntry.inflight = undefined }
\* in the caller that created the promise (pc = "owner")
inflightAfterReturn(pc, inflight, awaiting) ==
  IF pc = "owner" /\ inflight = awaiting THEN 0 ELSE inflight

\* a caller's await on the in-flight promise returns; the caller that created
\* the promise runs its finally block
RefreshReturns(u) ==
  /\ callers[u].pc \in {"owner", "joined"}
  /\ refreshes[callers[u].awaiting].settled # "pending"
  /\ LET c == callers[u]
     IN /\ cacheEntries' = [cacheEntries EXCEPT ![c.entry].inflight =
               inflightAfterReturn(c.pc, cacheEntries[c.entry].inflight, c.awaiting)]
        /\ callers' = [callers EXCEPT ![u] =
             [IdleCaller EXCEPT !.served = refreshes[c.awaiting].settled]]
  /\ UNCHANGED <<clock, history, pingCacheStore, refreshes, calls, cacheFrame>>

\* time passes between requests: the instants differ by nothing, by one poll
\* interval, by the TTL or by more than the TTL
CacheTimePasses(d) ==
  /\ clock + d <= EpochNow + MaxCacheTime
  /\ clock' = clock + d
  /\ UNCHANGED <<lease, leaseVars, pollerVars, probeVars, cacheVars, configVars, officialVars, readVars>>

NextCache ==
  \/ \E u \in Callers, mode \in RefreshModes, configs \in ConfigSets :
        LoadDashboardData(u, mode, configs)
  \/ \E u \in Callers : RefreshHistory(u)
  \/ \E r \in 1..MaxCalls + 1, append \in {"ok", "throw"} : RefreshSettles(r, append)
  \/ \E u \in Callers : RefreshReturns(u)
  \/ \E d \in {PING_CACHE_TTL_MS, PING_CACHE_TTL_MS + getPollingIntervalMs} :
        CacheTimePasses(d)

SpecCache == InitCache /\ [][NextCache]_vars

(***************************************************************************)
(* Specification SpecPingCache: getPingCacheEntry is called with one cache *)
(* key after the other (a key is the sorted set of target ids of a         *)
(* request) while refreshes stamp the entries they hold.                   *)
(***************************************************************************)
\* the cache keys in the order in which they are first asked for
PingKeys ==
  <<{"c"}, {"g"}, {"l"}, {"m"}, {"c", "g"}, {"c", "l"}, {"c", "m"}, {"g", "l"}, {"g", "m"},
    {"l", "m"}, {"c", "g", "l"}, {"c", "g", "m"}>>

\* calls made in one run: one more than the store is meant to hold
MaxPingCalls == PING_CACHE_MAX_SIZE + 1

\* getPingCacheEntry(key) with the next new key
GetPingCacheEntry(key) ==
  /\ calls < MaxPingCalls
  /\ key = PingKeys[calls + 1]
  /\ LET got == getPingCacheEntry(pingCacheStore, cacheEntries, key, clock)
     IN /\ pingCacheStore' = got.store
        /\ cacheEntries' = got.entries
  /\ calls' = calls + 1
  /\ UNCHANGED <<clock, history, refreshes, callers, cacheFrame>>

\* cacheEntry.history = nextHistory; cacheEntry.lastPingAt = Date.now(): a
\* refresh stamps the entry it was started with
EntryRefreshed(e) ==
  /\ e \in {pingCacheStore[k] : k \in KeysOf(pingCacheStore)}
  /\ cacheEntries[e].lastPingAt # clock
  /\ cacheEntries' = [cacheEntries EXCEPT ![e].history = TRUE, ![e].lastPingAt = clock]
  /\ UNCHANGED <<clock, history, pingCacheStore, refreshes, callers, calls, cacheFrame>>

NextPingCache ==
  \/ \E key \in SUBSET ConfigIds : GetPingCacheEntry(key)
  \/ \E e \in 1..MaxPingCalls : EntryRefreshed(e)

SpecPingCache == InitCache /\ [][NextPingCache]_vars

(***************************************************************************)
(* Specification SpecInvalidate: the process that serves the dashboard     *)
(* also runs the scheduler.  Its lease store, target store and History     *)
(* Store answer, and its batches are quick.                                *)
(***************************************************************************)
\* how far the clock runs: two global ticks
MaxInvalidateTime == EpochNow + 2 * POLL_INTERVAL_MS + FastBatchMs

\* the process has served no request; its module initialisation has armed
\* the interval timer
InitInvalidate ==
  /\ lease = InitialLeaseRow
  /\ clock = EpochNow
  /\ leaseReq = [n \in Nodes |-> NoReq]
  /\ leaseRes = [n \in Nodes |-> NoRes]
  /\ grants = {}
  /\ role = [n \in Nodes |-> "standby"]
  /\ running = [n \in Nodes |-> FALSE]
  /\ lastChecked = [n \in Nodes |-> [id \in ConfigIds |-> 0]]
  /\ pollerTimer = [n \in Nodes |-> IF n = Self THEN EpochNow + POLL_INTERVAL_MS ELSE NoTimer]
  /\ supplementaryTimer = [n \in Nodes |-> NoTimer]
  /\ timers = [n \in Nodes |-> IF n = Self THEN StartedTimers ELSE NoTimers]
  /\ batches = [n \in Nodes |-> {}]
  /\ history = {}
  /\ event = NoEvent
  /\ faults = {}
  /\ ProbeIdle
  /\ CacheIdle
  /\ OfficialIdle
  /\ ReadIdle
  /\ ConfigIdle

\* time passes up to the next timer or the next completion
InvalidateTimePasses ==
  /\ \A t \in EventTimes : t = NoTimer \/ t > clock
  /\ \E t \in EventTimes : t > clock
  /\ clock' = MinOf({t \in EventTimes : t > clock})
  /\ clock' <= MaxInvalidateTime
  /\ UNCHANGED <<lease, leaseVars, pollerVars, probeVars, cacheVars, configVars, officialVars,
                 readVars>>

NextInvalidate ==
  \/ MainTimerFire(Self, "ok", TRUE, FastBatchMs)
  \/ SupplementaryTimerFire(Self, "ok", TRUE, FastBatchMs)
  \/ \E b \in batches[Self] : TickBatchDone(Self, b, "ok")
  \/ \E u \in Callers, mode \in RefreshModes : LoadDashboardData(u, mode, InitialEnabled)
  \/ \E u \in Callers : RefreshHistory(u)
  \/ \E r \in 1..MaxCalls + 1 : RefreshSettles(r, "ok")
  \/ \E u \in Callers : RefreshReturns(u)
  \/ InvalidateTimePasses

SpecInvalidate == InitInvalidate /\ [][NextInvalidate]_vars

(***************************************************************************)
(* Resolution of the numeric settings from the environment                 *)
(* lib/core/polling-config.ts, lib/database/history.ts                     *)
(***************************************************************************)
\* a process is started with some environment and has read no setting yet
InitConfig ==
  /\ lease = InitialLeaseRow
  /\ clock = BootTime
  /\ leaseReq = [n \in Nodes |-> NoReq]
  /\ leaseRes = [n \in Nodes |-> NoRes]
  /\ grants = {}
  /\ PollerIdle
  /\ ProbeIdle
  /\ CacheIdle
  /\ OfficialIdle
  /\ ReadIdle
  /\ \E p \in PollIntervalEnv, c \in ConcurrencyEnv, r \in RetentionEnv, o \in OfficialStatusEnv :
       env = [pollIntervalSeconds |-> p, checkConcurrency |-> c, retentionDays |-> r,
              officialStatusIntervalSeconds |-> o]
  /\ settings = [s \in SettingNames |-> Unset]

configFrame == <<lease, clock, leaseVars, pollerVars, probeVars, cacheVars, env,
                officialVars, readVars>>

\* a call of getPollingIntervalSeconds()
GetPollingIntervalSeconds ==
  /\ settings' = [settings EXCEPT !.pollIntervalSeconds =
                    getPollingIntervalSeconds(env.pollIntervalSeconds)]
  /\ UNCHANGED configFrame

\* a call of getCheckConcurrency()
GetCheckConcurrency ==
  /\ settings' = [settings EXCEPT !.checkConcurrency = getCheckConcurrency(env.checkConcurrency)]
  /\ UNCHANGED configFrame

\* a call of getOfficialStatusIntervalSeconds()
GetOfficialStatusIntervalSeconds ==
  /\ settings' = [settings EXCEPT !.officialStatusIntervalSeconds =
                    getOfficialStatusIntervalSeconds(env.officialStatusIntervalSeconds)]
  /\ UNCHANGED configFrame

\* lib/database/history.ts is loaded: the exported constant is evaluated once
LoadHistoryModule ==
  /\ settings.retentionDays = Unset
  /\ settings' = [settings EXCEPT !.retentionDays = HISTORY_RETENTION_DAYS(env.retentionDays)]
  /\ UNCHANGED configFrame

NextConfig ==
  \/ GetPollingIntervalSeconds
  \/ GetCheckConcurrency
  \/ GetOfficialStatusIntervalSeconds
  \/ LoadHistoryModule

SpecConfig == InitConfig /\ [][NextConfig]_vars

(***************************************************************************)
(* Specification SpecOverride: resolution of the per-target overrides of   *)
(* one target from its metadata                                            *)
(***************************************************************************)
OverrideNames == {"degraded_threshold_ms", "timeout_ms", "poll_interval_seconds"}

\* metadata values: no value, no number, and numbers (plain or as a string)
\* just outside and at the ends of [min, max]
JsonSamples(min, max) ==
  {JsonNull, JsonEmpty, JsonText}
    \cup {JsonNumber(n) : n \in {0 - 1, min - 1, min, max, max + 1}}
    \cup {JsonNumeral(n) : n \in {min, max + 1}}

\* a target with some metadata, in a process with some CHECK_POLL_INTERVAL_SECONDS
InitOverride ==
  /\ lease = InitialLeaseRow
  /\ clock = BootTime
  /\ leaseReq = [n \in Nodes |-> NoReq]
  /\ leaseRes = [n \in Nodes |-> NoRes]
  /\ grants = {}
  /\ PollerIdle
  /\ \E d \in JsonSamples(DEGRADED_THRESHOLD_MS_MIN, DEGRADED_THRESHOLD_MS_MAX),
        t \in JsonSamples(TIMEOUT_MS_MIN, TIMEOUT_MS_MAX),
        p \in JsonSamples(PER_CONFIG_POLL_INTERVAL_MIN, PER_CONFIG_POLL_INTERVAL_MAX) :
       targetMeta = [i \in ProbeTargets |->
          [degraded_threshold_ms |-> d, timeout_ms |-> t, poll_interval_seconds |-> p]]
  /\ batchPhase = "idle"
  /\ task = [i \in ProbeTargets |-> IdleTask]
  /\ results = [i \in ProbeTargets |-> NoResult]
  /\ attempts = [i \in ProbeTargets |-> 0]
  /\ CacheIdle
  /\ OfficialIdle
  /\ ReadIdle
  /\ \E e \in {EnvUnset, EnvNumber(MIN_INTERVAL_SECONDS - 1), EnvNumber(MAX_INTERVAL_SECONDS + 1)} :
       env = [s \in SettingNames |-> IF s = "pollIntervalSeconds" THEN e ELSE EnvUnset]
  /\ settings = [s \in OverrideNames |-> Unset]

overrideFrame == <<lease, clock, leaseVars, pollerVars, probeVars, cacheVars, env,
                officialVars, readVars>>

\* checkWithAiSdk: getNumericConfig(metadata, "degraded_threshold_ms", ...)
ResolveDegradedThreshold(i) ==
  /\ settings' = [settings EXCEPT !.degraded_threshold_ms =
        getNumericConfig(metadataNumber(targetMeta[i].degraded_threshold_ms),
                         DEGRADED_THRESHOLD_MS, DEGRADED_THRESHOLD_MS_MIN,
                         DEGRADED_THRESHOLD_MS_MAX)]
  /\ UNCHANGED overrideFrame

\* checkWithAiSdk: getNumericConfig(metadata, "timeout_ms", ...)
ResolveTimeout(i) ==
  /\ settings' = [settings EXCEPT !.timeout_ms =
        getNumericConfig(metadataNumber(targetMeta[i].timeout_ms),
                         DEFAULT_TIMEOUT_MS, TIMEOUT_MS_MIN, TIMEOUT_MS_MAX)]
  /\ UNCHANGED overrideFrame

\* getEffectivePollIntervalMs(metadata), kept in seconds as the metadata holds it
ResolvePollInterval(i) ==
  /\ settings' = [settings EXCEPT !.poll_interval_seconds =
        getEffectivePollIntervalMsUnder(metadataNumber(targetMeta[i].poll_interval_seconds),
                                        env.pollIntervalSeconds) \div 1000]
  /\ UNCHANGED overrideFrame

NextOverride ==
  \/ \E i \in ProbeTargets : ResolveDegradedThreshold(i)
  \/ \E i \in ProbeTargets : ResolveTimeout(i)
  \/ \E i \in ProbeTargets : ResolvePollInterval(i)

SpecOverride == InitOverride /\ [][NextOverride]_vars

(***************************************************************************)
(* lib/official-status/openai.ts and lib/official-status/index.ts          *)
(***************************************************************************)
MaxOfficialCalls == 3

\* statuses the feed gives to affected components and to ongoing incidents
FeedStatuses == {"degraded_performance", "partial_outage", "Major Outage", "investigating"}

\* String.prototype.toLowerCase over the feed statuses
toLowerCase(s) == IF s = "Major Outage" THEN "major outage" ELSE s

\* String.prototype.includes over the lower-cased feed statuses
includes(s, word) ==
  <<s, word>> \in {<<"partial_outage", "outage">>,
                   <<"major outage", "outage">>,
                   <<"major outage", "major">>}

\* the test parseOpenAIStatus applies to a component status and to an incident status
IsDownStatus(s) ==
  \/ includes(toLowerCase(s), "down")
  \/ includes(toLowerCase(s), "outage")
  \/ includes(toLowerCase(s), "major")

\* bodies of the status feed: whether summary is present, the statuses of
\* affected_components, the statuses of ongoing_incidents, and the number of
\* affected component ids that have a name in summary.components
FeedBodies ==
  {NoSummary} \cup
  {[summary |-> TRUE, affected |-> a, incidents |-> i, named |-> n] :
     a \in {{}, {"degraded_performance"}, {"degraded_performance", "partial_outage"}},
     i \in {{}, {"investigating"}, {"Major Outage"}},
     n \in {0, 2}}

\* what the fetch of the status page comes to: the abort of the 15 s timer, a
\* network failure, a response with an HTTP status, whose body is JSON or not
FetchOutcomes ==
  {[kind |-> k, status |-> 0, body |-> NoSummary] : k \in {"abort", "network"}}
  \cup {[kind |-> "response", status |-> st, body |-> NoSummary] : st \in {404, 503}}
  \cup {[kind |-> "badjson", status |-> 200, body |-> NoSummary]}
  \cup {[kind |-> "response", status |-> 200, body |-> b] : b \in FeedBodies}

StatusResult(status, message, checkedAt, affectedComponents) ==
  [threw |-> FALSE, error |-> "none",
   result |-> [status |-> status, message |-> message, checkedAt |-> checkedAt,
               affectedComponents |-> affectedComponents]]

\* an exception that leaves the function
OfficialThrown(error) == [threw |-> TRUE, error |-> error, result |-> NoOfficialResult]

\* the messages, in English: "所有系统正常运行", "N 个组件受影响: ...",
\* "服务出现故障", "服务性能降级"
parseOpenAIStatus(data, checkedAt) ==
  IF ~data.summary THEN OfficialThrown("TypeError")
  ELSE IF data.affected = {} /\ data.incidents = {}
  THEN StatusResult("operational", "all systems operational", checkedAt, 0)
  ELSE LET hasDownComponents ==
             \/ \E c \in data.affected : IsDownStatus(c)
             \/ \E i \in data.incidents : IsDownStatus(i)
           status == IF hasDownComponents THEN "down" ELSE "degraded"
           message == IF data.named > 0 THEN "components affected"
                      ELSE IF hasDownComponents THEN "service outage"
                      ELSE "service degraded"
       IN  StatusResult(status, message, checkedAt, data.named)

HttpMessage(status) == IF status = 404 THEN "HTTP 404" ELSE "HTTP 503"

\* the try block of checkOpenAIStatus
checkOpenAIStatusTry(fetched_, checkedAt) ==
  CASE fetched_.kind = "abort" -> OfficialThrown("AbortError")
    [] fetched_.kind = "network" -> OfficialThrown("TypeError")
    [] fetched_.kind = "badjson" -> OfficialThrown("SyntaxError")
    [] OTHER ->
         IF ~(fetched_.status \in 200..299)
         THEN StatusResult("unknown", HttpMessage(fetched_.status), checkedAt, 0)
         ELSE parseOpenAIStatus(fetched_.body, checkedAt)

\* a catch block that lets the error through
checkOpenAIStatusRethrow(error, checkedAt) == OfficialThrown(error)

\* the catch block of checkOpenAIStatus; messages "检查超时", "检查失败"
checkOpenAIStatusCatch(error, checkedAt) ==
  IF error = "AbortError"
  THEN StatusResult("unknown", "check timed out", checkedAt, 0)
  ELSE StatusResult("unknown", "check failed", checkedAt, 0)

checkOpenAIStatus(fetched_, checkedAt) ==
  LET tried == checkOpenAIStatusTry(fetched_, checkedAt)
  IN  IF tried.threw THEN checkOpenAIStatusCatch(tried.error, checkedAt) ELSE tried

\* message "未配置官方状态检查" for the vendors without a checker
checkOfficialStatus(type, fetched_, checkedAt) ==
  CASE type = "openai" -> checkOpenAIStatus(fetched_, checkedAt)
    [] type \in {"gemini", "anthropic"} ->
         StatusResult("unknown", "official status check not configured", checkedAt, 0)
    [] OTHER -> StatusResult("unknown", "unsupported provider type", checkedAt, 0)

\* Promise.all over the vendors: rejects as soon as one check rejects
checkAllOfficialStatuses(types, fetched_, checkedAt) ==
  IF \E t \in types : checkOfficialStatus(t, fetched_, checkedAt).threw
  THEN [threw |-> TRUE, results |-> [t \in types |-> NoOfficialResult]]
  ELSE [threw |-> FALSE,
        results |-> [t \in types |-> checkOfficialStatus(t, fetched_, checkedAt).result]]

(***************************************************************************)
(* lib/core/official-status-poller.ts                                      *)
(***************************************************************************)
\* a poller without the in-flight guard
NoOfficialGuard(polling) == FALSE

\* runOfficialStatusCheck: if (isPolling) return
OfficialGuard(polling) == polling

\* runOfficialStatusCheck up to its await: the guard, then the flag is set and
\* the checks of all vendors start (checkedAt is taken at the start of the run)
runOfficialStatusCheck ==
  /\ officialCalls < MaxOfficialCalls
  /\ officialCalls' = officialCalls + 1
  /\ IF OfficialGuard(isPolling)
     THEN /\ officialEvent' = [kind |-> "skipped", run |-> officialCalls', fetch |-> NoFetch]
          /\ UNCHANGED <<isPolling, officialRuns, officialStatusCache>>
     ELSE /\ isPolling' = TRUE
          /\ officialRuns' = officialRuns \cup {officialCalls'}
          /\ officialEvent' = [kind |-> "started", run |-> officialCalls', fetch |-> NoFetch]
          /\ UNCHANGED officialStatusCache

officialFrame == <<lease, clock, leaseVars, pollerState, probeVars, cacheVars, configVars,
                   readVars>>

\* startOfficialStatusPoller (a call with the timer set returns at once): one
\* check at once, then the interval timer
StartOfficialStatusPoller ==
  /\ ~pollingTimerId
  /\ runOfficialStatusCheck
  /\ pollingTimerId' = TRUE
  /\ timers' = [timers EXCEPT ![Self].official = @ + 1]
  /\ UNCHANGED officialFrame

\* the setInterval callback
OfficialTimerFire ==
  /\ pollingTimerId
  /\ runOfficialStatusCheck
  /\ UNCHANGED <<pollingTimerId, timers, officialFrame>>

\* stopOfficialStatusPoller
StopOfficialStatusPoller ==
  /\ pollingTimerId
  /\ pollingTimerId' = FALSE
  /\ timers' = [timers EXCEPT ![Self].official = @ - 1]
  /\ officialEvent' = [kind |-> "stopped", run |-> 0, fetch |-> NoFetch]
  /\ UNCHANGED <<isPolling, officialStatusCache, officialRuns, officialCalls, officialFrame>>

\* the rest of runOfficialStatusCheck, once the fetch of run r has come to
\* something: the table is updated unless the await rejected, and the finally
\* block clears the flag
OfficialRunSettles(r, fetched_) ==
  /\ r \in officialRuns
  /\ LET all == checkAllOfficialStatuses(ProviderTypes, fetched_, r)
     IN  /\ officialStatusCache' =
              IF all.threw THEN officialStatusCache
              ELSE [t \in ProviderTypes |-> all.results[t]]
         /\ officialEvent' = [kind |-> IF all.threw THEN "failed" ELSE "ended",
                              run |-> r, fetch |-> fetched_]
  /\ isPolling' = FALSE
  /\ officialRuns' = officialRuns \ {r}
  /\ UNCHANGED <<pollingTimerId, timers, officialCalls, officialFrame>>

InitOfficial ==
  /\ lease = InitialLeaseRow
  /\ clock = BootTime
  /\ leaseReq = [n \in Nodes |-> NoReq]
  /\ leaseRes = [n \in Nodes |-> NoRes]
  /\ grants = {}
  /\ PollerIdle
  /\ ProbeIdle
  /\ CacheIdle
  /\ ConfigIdle
  /\ OfficialIdle
  /\ ReadIdle

NextOfficial ==
  \/ StartOfficialStatusPoller
  \/ OfficialTimerFire
  \/ StopOfficialStatusPoller
  \/ \E r \in officialRuns, f \in FetchOutcomes : OfficialRunSettles(r, f)

SpecOfficial == InitOfficial /\ [][NextOfficial]_vars

(***************************************************************************)
(* Specification SpecTimers: one process whose poller module is evaluated  *)
(* again and again while its scheduler ticks, an operator enables and      *)
(* disables target l, and the official-status poller runs, is stopped and  *)
(* is started.                                                             *)
(***************************************************************************)
\* the status page cannot be reached
FetchUnreachable == [kind |-> "network", status |-> 0, body |-> NoSummary]

\* evaluations of the poller module in one process
MaxLoads == 3

\* a module initialisation that does not look at globalThis.__checkCxPoller
getPollerTimerUnset(n) == FALSE

\* getPollerTimer(): globalThis.__checkCxPoller holds a timer
getPollerTimer(n) == pollerTimer[n] # NoTimer

\* the top-level code of poller.ts: if (!getPollerTimer()) { the election is
\* started, the interval timer is created and stored, and
\* startOfficialStatusPoller() runs its first check and creates its timer
\* unless pollingTimerId is set }
InitialisePoller(n, elect) ==
  /\ timers[n].loads < MaxLoads
  /\ IF getPollerTimer(n)
     THEN /\ timers' = [timers EXCEPT ![n].loads = @ + 1]
          /\ UNCHANGED <<lease, role, pollerTimer, officialVars>>
     ELSE /\ LET elected == ensurePollerLeadership(lease, n, clock, elect)
             IN IF elect = "throw"
                THEN UNCHANGED <<lease, role>>
                ELSE /\ lease' = elected.row
                     /\ role' = [role EXCEPT ![n] = elected.role]
          /\ pollerTimer' = [pollerTimer EXCEPT ![n] = NextIntervalFire(clock)]
          /\ IF pollingTimerId
             THEN UNCHANGED officialVars
             ELSE /\ runOfficialStatusCheck
                  /\ pollingTimerId' = TRUE
          /\ timers' = [timers EXCEPT ![n] =
                          [@ EXCEPT !.loads = @ + 1, !.main = @ + 1,
                                    !.official = IF pollingTimerId THEN @ ELSE @ + 1]]
  /\ UNCHANGED <<clock, running, lastChecked, supplementaryTimer, batches, history, event,
                 faults, leaseVars, probeVars, cacheVars, configVars, readVars>>

NextTimers ==
  \/ \E elect \in {"ok", "error"} : InitialisePoller(Self, elect)
  \/ MainTimerFire(Self, "ok", TRUE, FastBatchMs)
  \/ SupplementaryTimerFire(Self, "ok", TRUE, FastBatchMs)
  \/ \E b \in batches[Self] : TickBatchDone(Self, b, "ok")
  \/ \E value \in BOOLEAN : SetEnabled("l", value)
  \/ AdvanceTime
  \/ StartOfficialStatusPoller
  \/ OfficialTimerFire
  \/ StopOfficialStatusPoller
  \/ \E r \in officialRuns : OfficialRunSettles(r, FetchUnreachable)

SpecTimers == InitOfficial /\ [][NextTimers]_vars

(***************************************************************************)
(* lib/database/history.ts (SnapshotStore.fetch) and the function          *)
(* get_recent_check_history of supabase/schema-dev.sql                     *)
(***************************************************************************)
MAX_POINTS_PER_PROVIDER == 60

\* the targets that have history and the instants of their checks
HistoryIds == {"c", "g"}
CheckedAts == {1, 2, 3}

\* rows of check_history (config_id references check_configs)
HistoryRows == [config_id : HistoryIds, checked_at : CheckedAts]

\* options.allowedIds: absent, or an iterable of strings ("" is dropped by filter(Boolean))
AllowedIdsSamples ==
  {[given |-> FALSE, ids |-> {}]} \cup
  {[given |-> TRUE, ids |-> s] : s \in {{}, {""}, {"c"}, {"c", ""}, {"c", "g"}}}

\* options.limitPerConfig: absent, 1 (lib/metrics/collect.ts) or 2
LimitSamples == {Unset, 1, 2}

\* null, or the array without its falsy members
normalizeAllowedIds(allowed) ==
  IF ~allowed.given THEN [given |-> FALSE, ids |-> {}]
  ELSE [given |-> TRUE, ids |-> allowed.ids \ {""}]

\* the rows of a target, newest first
RECURSIVE SortNewestFirst(_)
SortNewestFirst(ts) ==
  IF ts = {} THEN <<>>
  ELSE LET newest == CHOOSE t \in ts : \A u \in ts : u <= t
       IN  <<newest>> \o SortNewestFirst(ts \ {newest})

\* Array.prototype.slice(0, n)
slice(seq, n) == IF Len(seq) <= n THEN seq ELSE SubSeq(seq, 1, n)

\* a HistorySnapshot as a function over the targets; the empty list stands for
\* a key that the object does not have
SnapshotOf(rows, limit) ==
  [id \in HistoryIds |->
     slice(SortNewestFirst({r.checked_at : r \in {x \in rows : x.config_id = id}}), limit)]

EmptySnapshot == [id \in HistoryIds |-> <<>>]

\* schema-dev.sql: ROW_NUMBER() OVER (PARTITION BY config_id ORDER BY checked_at DESC)
RowNumber(rows, r) ==
  1 + Cardinality({x \in rows : x.config_id = r.config_id /\ x.checked_at > r.checked_at})

\* schema-dev.sql: dev.get_recent_check_history(limit_per_config, target_config_ids)
get_recent_check_history(rows, limit_per_config, target_config_ids) ==
  LET ranked == {r \in rows : ~target_config_ids.given \/ r.config_id \in target_config_ids.ids}
  IN  {r \in ranked : RowNumber(ranked, r) <= limit_per_config /\ r.config_id \in ConfigIds}

mapRowsToSnapshot(rows, limitPerConfig) ==
  IF rows = {} THEN EmptySnapshot ELSE SnapshotOf(rows, limitPerConfig)

\* fallbackFetchSnapshot(db, allowedIds); queryOk: the query of check_history
\* returns no error
fallbackFetchSnapshot(rows, allowedIds, queryOk) ==
  IF ~queryOk THEN EmptySnapshot
  ELSE SnapshotOf({r \in rows : /\ ~allowedIds.given \/ r.config_id \in allowedIds.ids
                                /\ r.config_id \in ConfigIds},
                  MAX_POINTS_PER_PROVIDER)

\* what db.rpc comes to: data, the error of a missing function, another error
RpcOutcomes == {"ok", "missing", "error"}

\* the path a read takes
PathOf(rpc, queryOk) ==
  IF rpc = "ok" THEN "rpc"
  ELSE IF rpc = "missing" /\ queryOk THEN "fallback"
  ELSE "error"

\* SnapshotStore.fetch(options)
fetch(rows, options, rpc, queryOk) ==
  LET normalizedIds == normalizeAllowedIds(options.allowedIds)
      limitPerConfig == IF options.limitPerConfig = Unset THEN MAX_POINTS_PER_PROVIDER
                        ELSE options.limitPerConfig
  IN  IF normalizedIds.given /\ normalizedIds.ids = {} THEN EmptySnapshot
      ELSE IF rpc = "missing"
           THEN fallbackFetchSnapshot(rows, normalizedIds, queryOk)
      ELSE IF rpc = "error" THEN EmptySnapshot
      ELSE mapRowsToSnapshot(get_recent_check_history(rows, limitPerConfig, normalizedIds),
                             limitPerConfig)

readFrame == <<lease, clock, leaseVars, pollerVars, probeVars, cacheVars, configVars,
               officialVars, checkHistory, checkConfigs, fetchOptions>>

\* one read of the History Store
Fetch(rpc, queryOk) ==
  /\ ~fetched[PathOf(rpc, queryOk)].done
  /\ fetched' = [fetched EXCEPT ![PathOf(rpc, queryOk)] =
                   [done |-> TRUE, snapshot |-> fetch(checkHistory, fetchOptions, rpc, queryOk)]]
  /\ UNCHANGED readFrame

InitRead ==
  /\ lease = InitialLeaseRow
  /\ clock = BootTime
  /\ leaseReq = [n \in Nodes |-> NoReq]
  /\ leaseRes = [n \in Nodes |-> NoRes]
  /\ grants = {}
  /\ PollerIdle
  /\ ProbeIdle
  /\ CacheIdle
  /\ ConfigIdle
  /\ OfficialIdle
  /\ checkHistory \in SUBSET HistoryRows
  /\ checkConfigs = InitialConfigs
  /\ fetchOptions \in [limitPerConfig : LimitSamples, allowedIds : AllowedIdsSamples]
  /\ fetched = [path \in {"rpc", "fallback", "error"} |-> [done |-> FALSE, snapshot |-> <<>>]]

NextRead == \E rpc \in RpcOutcomes, queryOk \in BOOLEAN : Fetch(rpc, queryOk)

SpecRead == InitRead /\ [][NextRead]_vars

(***************************************************************************)
(* C1                                                                      *)
(***************************************************************************)
WindowsOverlap(g, h) == ~(g.to < h.from \/ h.to < g.from)

\* every node's latest call was an acquire captured at the same instant against
\* an expired row, and all of them have completed without a store error
AcquireRaceCompleted ==
  /\ \A n \in Nodes : (/\ leaseReq[n].kind = "none"
                        /\ leaseRes[n].kind = "acquire"
                        /\ leaseRes[n].sawExpired
                        /\ ~leaseRes[n].err)
  /\ \A n \in Nodes : \A m \in Nodes : leaseRes[n].now = leaseRes[m].now

\* C1: lease mutual exclusion.  Validity windows granted to distinct nodes
\* never overlap, at every instant at most one node has a granted window that
\* covers it, and when all nodes called acquire at the same instant against an
\* expired row and every call has completed without a store error, exactly one
\* of the calls returned true.
C1_LeaseMutualExclusion ==
  /\ \A g \in grants : \A h \in grants : g.node # h.node => ~WindowsOverlap(g, h)
  /\ Cardinality({n \in Nodes : \E g \in grants :
                     g.node = n /\ g.from <= clock /\ clock <= g.to}) <= 1
  /\ (AcquireRaceCompleted => Cardinality({n \in Nodes : leaseRes[n].ok}) = 1)

\* C1 witness: both nodes raced for an expired lease at the same instant and
\* one of them holds the granted window.
C1_Witness ==
  /\ AcquireRaceCompleted
  /\ \E n \in Nodes : leaseRes[n].ok /\ lease.leader_id = n

(***************************************************************************)
(* C2                                                                      *)
(***************************************************************************)
\* the nodes that are inside runProviderChecks of a scheduler tick
Executing == {n \in Nodes : SchedulerBatches(n) # {}}

\* C2: the lease lets a single node execute scheduler polling: at no instant
\* are two nodes inside the probe batch of a tick.
C2_SingleExecutor == Cardinality(Executing) <= 1

(***************************************************************************)
(* C4                                                                      *)
(***************************************************************************)
\* the effective intervals of the monitored targets, in ms
ExpectedIntervalMs(id) == IF id = "c" THEN 20 * 1000 ELSE 60 * 1000

\* the last handler was a tick that evaluated the due-filter
ReachedDueFilter ==
  event.kind \in {"main", "supplementary"} /\ event.outcome \in {"noDue", "started"}

\* C4: a tick that evaluates the due-filter at instant now selects an active
\* target with last-checked time T > 0 and effective interval I exactly when
\* now >= T + I, and always selects a target that has never been checked.
C4_DueFilter ==
  ReachedDueFilter =>
    \A id \in {"c", "g"} :
      LET T == lastChecked[event.node][id]
      IN /\ T = 0 => id \in event.due
         /\ T > 0 => (id \in event.due <=> event.now >= T + ExpectedIntervalMs(id))

\* C4 witness: a tick at exactly T + I of the 20 s target selects it while the
\* other target, checked less than its interval ago, is left out.
C4_Witness ==
  /\ ReachedDueFilter
  /\ lastChecked[event.node]["c"] > 0
  /\ event.now = lastChecked[event.node]["c"] + 20 * 1000
  /\ "c" \in event.due
  /\ lastChecked[event.node]["g"] > 0
  /\ "g" \notin event.due

(***************************************************************************)
(* C9                                                                      *)
(***************************************************************************)
\* the step is a run of tick() on node n
TickStep(n) ==
  /\ event' # event
  /\ event'.node = n
  /\ event'.kind \in {"main", "supplementary"}

\* C9: at most one tick per process is in its executing phase, and a tick
\* that fires while the previous one is still executing returns without
\* loading targets, starting probes, appending history, touching the running
\* flag or the last-checked store, and without arming any timer for a re-run.
C9_OverlapGuard ==
  /\ [](\A n \in Nodes : Cardinality(SchedulerBatches(n)) <= 1)
  /\ [][\A n \in Nodes :
         (TickStep(n) /\ SchedulerBatches(n) # {}) =>
            /\ ~event'.loaded
            /\ batches'[n] = batches[n]
            /\ history' = history
            /\ running'[n] = running[n]
            /\ lastChecked'[n] = lastChecked[n]
            /\ supplementaryTimer'[n] \in {supplementaryTimer[n], NoTimer}]_vars

\* C9 witness: a tick of the leader was skipped by the guard while its batch
\* is still in flight.
C9_Witness ==
  /\ event.outcome = "overlap"
  /\ SchedulerBatches(event.node) # {}
  /\ running[event.node]

(***************************************************************************)
(* C5: retry bound of an always-aborted probe                              *)
(***************************************************************************)
AlwaysAborted(i) == targetMeta[i].behaviour = "aborted"

\* C5 as stated: within one batch (runProviderChecks), a probe that always
\* fails with the "request was aborted" signature is attempted at most twice
\* (initial attempt + one retry) before it is recorded as failed.
C5_RetryBoundPerBatch ==
  \A i \in ProbeTargets : AlwaysAborted(i) => attempts[i] <= 2

\* C5 amended: every checkWithRetry call attempts its probe at most twice
\* (initial attempt + one retry); runProviderChecks calls checkWithRetry a
\* second time for a target whose result is failed, so within one batch an
\* always-aborted probe is attempted at most four times, and it is recorded
\* as failed when the batch returns.
C5_RetryBound ==
  \A i \in ProbeTargets :
     /\ task[i].attempt + 1 <= MAX_REQUEST_ABORT_RETRIES + 1
     /\ attempts[i] <= (MAX_REQUEST_ABORT_RETRIES + 1) * (FAILURE_CONFIRM_RETRIES + 1)
     /\ (AlwaysAborted(i) /\ batchPhase = "returned") =>
          (results[i].status = "failed" /\ results[i].latencyMs = Null)

C5_Witness ==
  /\ batchPhase = "returned"
  /\ AlwaysAborted("p")
  /\ attempts["p"] = 4
  /\ results["p"].status = "failed"

(***************************************************************************)
(* C6: status boundary at the degraded threshold                           *)
(***************************************************************************)
\* the threshold in force for a target: its override when it lies in
\* [100, 120000], else the default 6000
ThresholdInForce(i) ==
  IF targetMeta[i].degraded_threshold_ms \in 100..120000
  THEN targetMeta[i].degraded_threshold_ms
  ELSE 6000

\* the request of target i completed, without an error, with the expected answer
ValidatedSuccess(i) ==
  /\ task[i].state = "settled"
  /\ ~task[i].run.thrown
  /\ ~task[i].run.streamError
  /\ task[i].run.text = "valid"

\* C6: a successful, validated probe whose latency equals the target's
\* degraded threshold is operational, and one whose latency is the threshold
\* plus one is degraded, for the default threshold and every in-range override.
C6_StatusBoundary ==
  \A i \in ProbeTargets :
     ValidatedSuccess(i) =>
        /\ task[i].run.latencyMs = ThresholdInForce(i) =>
              (results[i].status = "operational" /\ results[i].latencyMs = ThresholdInForce(i))
        /\ task[i].run.latencyMs = ThresholdInForce(i) + 1 =>
              (results[i].status = "degraded" /\ results[i].latencyMs = ThresholdInForce(i) + 1)

C6_Witness ==
  /\ batchPhase = "returned"
  /\ ValidatedSuccess("p")
  /\ targetMeta["p"].degraded_threshold_ms = 120000
  /\ task["p"].run.latencyMs = 120000
  /\ results["p"].status = "operational"

(***************************************************************************)
(* C7: outcome of a probe that exceeds its timeout                         *)
(***************************************************************************)
\* C7 as stated: a probe whose request exceeds timeoutMs (its cancellation
\* signal fires) yields status failed, latencyMs null and a timeout message.
C7_TimeoutOutcome ==
  \A i \in ProbeTargets :
     (task[i].state = "settled" /\ task[i].run.timedOut) =>
        /\ results[i].status = "failed"
        /\ results[i].latencyMs = Null
        /\ results[i].message = "timeout"

(***************************************************************************)
(* C3: single-flight refresh of the dashboard cache                        *)
(***************************************************************************)
InFlight(k) ==
  {r \in DOMAIN refreshes : refreshes[r].configs = k /\ refreshes[r].settled = "pending"}

\* C3 as stated: concurrent loadDashboardData calls with the same cache key
\* and no fresh cache entry trigger one probe batch: at most one refresh (one
\* runProviderChecks call) is in flight per key at any time, and a caller that
\* needs a refresh while one is in flight waits for that one.
C3_SingleFlight ==
  /\ \A k \in ConfigSets : Cardinality(InFlight(k)) <= 1
  /\ \A u \in Callers :
        callers[u].pc \in {"owner", "joined"} =>
           \A r \in InFlight(callers[u].configs) : callers[u].awaiting = r

(***************************************************************************)
(* C10: a standby process executes no probe                                *)
(***************************************************************************)
\* C10 as stated: a process whose role is standby never executes a probe,
\* whether triggered by the main timer, the supplementary timer or a
\* loadDashboardData call.
C10_StandbyNeverProbes ==
  \A n \in Nodes :
     role[n] = "standby" =>
        /\ batches[n] = {}
        /\ \A r \in DOMAIN refreshes :
              refreshes[r].node = n => refreshes[r].settled # "pending"

(***************************************************************************)
(* C8: cadence of a target with a short custom interval                    *)
(***************************************************************************)
\* the target whose poll_interval_seconds is 20
ShortTarget == "c"

BeingProbed(n, id) == \E b \in SchedulerBatches(n) : id \in b.ids

\* setTimeout is never armed for less than 5 seconds
TimerFloorMs == 5 * 1000

\* what "about one custom interval" tolerates: a fast batch of other targets
\* in the way and the floor of the timer
CadenceSlackMs == FastBatchMs + TimerFloorMs

NextDueAt(n) == lastChecked[n][ShortTarget] + IntervalOf(ShortTarget)

\* node n is late with its next probe of the short-interval target: the last
\* probe completed more than one custom interval (plus the slack) ago and no
\* probe of it is running
Late(n) ==
  /\ lastChecked[n][ShortTarget] # 0
  /\ ~BeingProbed(n, ShortTarget)
  /\ clock > NextDueAt(n) + CadenceSlackMs

UnderMaintenance(ids) == {id \in ids : ConfigRows[id].is_maintenance}

\* C11 as stated: no probe batch started by the core, by a scheduler tick or
\* by a dashboard refresh, contains a target whose maintenance flag is true.
C11_MaintenanceNeverProbed ==
  /\ \A n \in Nodes : \A b \in batches[n] : UnderMaintenance(b.ids) = {}
  /\ \A r \in DOMAIN refreshes : UnderMaintenance(refreshes[r].configs) = {}

(***************************************************************************)
(* C12: refresh modes of loadDashboardData                                 *)
(***************************************************************************)
\* the step in which caller u, its history read done, applies its refresh mode
DecidesRefresh(u) == callers[u].pc = "readHistory" /\ callers'[u].pc # "readHistory"

\* the step calls runProviderChecks
StartsBatch == Len(refreshes') = Len(refreshes) + 1

HasHistoryFor(u) == history \cap callers[u].configs # {}

\* the entry caller u holds carries a snapshot younger than the poll interval
HoldsFreshSnapshot(u) ==
  /\ cacheEntries[callers[u].entry].history
  /\ clock - cacheEntries[callers[u].entry].lastPingAt < 60 * 1000

\* the entry caller u holds carries a refresh that has not returned
HoldsInflight(u) == cacheEntries[callers[u].entry].inflight # 0

RecentlyRefreshed(u) ==
  \E r \in DOMAIN refreshes :
     /\ refreshes[r].configs = callers[u].configs
     /\ refreshes[r].settled = "resolved"
     /\ clock - cacheEntries[refreshes[r].entry].lastPingAt < 60 * 1000

\* C13 as stated: once a refresh for a cache key has completed at time t and
\* stored its snapshot, every refreshHistory call for the same key earlier
\* than t + pollInterval returns that snapshot without starting a probe batch.
C13_CacheFreshness ==
  [][\A u \in Callers :
        (DecidesRefresh(u) /\ callers[u].mode = "always" /\ RecentlyRefreshed(u)) =>
           (~StartsBatch /\ callers'[u].served = "cache")]_vars

(***************************************************************************)
(* C14: one typed outcome per target, nothing thrown                       *)
(***************************************************************************)
\* the statuses a CheckOutcome may carry
DefinedStatuses ==
  {"operational", "degraded", "validation_failed", "failed", "error", "maintenance"}

\* C14: runProviderChecks never throws and returns one outcome per input
\* target, each with one of the defined statuses, also when a probe function
\* throws or is retried; a thrown probe error becomes an outcome with status
\* failed and latencyMs null.
C14_TypedOutcomes ==
  /\ batchPhase # "threw"
  /\ \A i \in ProbeTargets :
        /\ batchPhase = "returned" =>
              (task[i].state = "settled" /\ results[i].status \in DefinedStatuses)
        /\ (task[i].state = "settled" /\ task[i].threw) =>
              (results[i].status = "failed" /\ results[i].latencyMs = Null)

\* a batch returned in which one probe function threw, was confirmed and
\* answered then, and another kept throwing
C14_Witness ==
  /\ batchPhase = "returned"
  /\ task["q"].threw
  /\ results["q"].status = "failed"
  /\ attempts["p"] > 1
  /\ results["p"].status \in {"operational", "degraded"}

(***************************************************************************)
(* C15: a tick that ends leaves the running flag cleared                   *)
(***************************************************************************)
\* the step ends a tick of node n that had passed the running guard
TickEnds(n) ==
  /\ event'.node = n
  /\ \/ event'.kind = "batchDone"
     \/ TickStep(n) /\ event'.outcome \in {"noActive", "noDue"}

\* C15: after any tick ends (completion, early return for no targets or no
\* due targets, a throwing history append) the running flag is false, the
\* flag is set only while a batch of that node executes, and a tick that
\* fires while no batch executes is never skipped by the overlap guard.
C15_RunningFlagCleared ==
  /\ [](\A n \in Nodes : running[n] <=> SchedulerBatches(n) # {})
  /\ [][\A n \in Nodes :
          /\ TickEnds(n) => ~running'[n]
          /\ (TickStep(n) /\ SchedulerBatches(n) = {}) => event'.outcome # "overlap"]_vars

\* a batch starts on a node whose previous tick ended in a throwing append
C15_Witness ==
  /\ event.outcome = "started"
  /\ "append" \in faults
  /\ running[event.node]
  /\ lastChecked[event.node][ShortTarget] # 0

(***************************************************************************)
(* C16  Bounded fan-out                                                    *)
(***************************************************************************)
\* the checkProvider calls of the batch that have been started and have not settled
ProbesInFlight == {i \in ProbeTargets : task[i].state = "inflight"}

\* C16: while runProviderChecks executes a batch, first pass and confirmation
\* pass alike, the number of probes in flight never exceeds the configured
\* maximum getCheckConcurrency(), whatever value CHECK_CONCURRENCY holds.
C16_BoundedFanOut ==
  \A raw \in ConcurrencyEnv :
    batchPhase \in {"first", "confirm"} =>
      Cardinality(ProbesInFlight) <= getCheckConcurrency(raw)

(***************************************************************************)
(* C17  Clamped configuration                                              *)
(***************************************************************************)
\* the variable is unset, or its value is not a number at all
UnsetOrInvalid(raw) == raw \in NonNumerals

\* setting s, once resolved, lies in lo..hi and equals def when its variable
\* is unset or invalid
Resolved(s, lo, hi, def) ==
  settings[s] # Unset =>
    /\ settings[s] \in lo..hi
    /\ UnsetOrInvalid(env[s]) => settings[s] = def

\* C17: for every raw environment value, the resolved poll interval lies in
\* [15, 600] s, the concurrency in [1, 20], the retention in [7, 365] days and
\* the official-status interval in [60, 3600] s, and each equals its default
\* (60, 5, 30, 300) when its variable is unset or invalid.
C17_ClampedConfiguration ==
  /\ Resolved("pollIntervalSeconds", 15, 600, 60)
  /\ Resolved("checkConcurrency", 1, 20, 5)
  /\ Resolved("retentionDays", 7, 365, 30)
  /\ Resolved("officialStatusIntervalSeconds", 60, 3600, 300)

\* the parts of C17 that hold: every range, and every default but the
\* retention's for an empty value
C17_RangesAndOtherDefaults ==
  /\ Resolved("pollIntervalSeconds", 15, 600, 60)
  /\ Resolved("checkConcurrency", 1, 20, 5)
  /\ Resolved("officialStatusIntervalSeconds", 60, 3600, 300)
  /\ settings.retentionDays # Unset =>
       /\ settings.retentionDays \in 7..365
       /\ env.retentionDays \in {EnvUnset, EnvText} => settings.retentionDays = 30

(***************************************************************************)
(* C18  Fail-safe election                                                 *)
(***************************************************************************)
\* the tick of node n ended at its election gate: the election rejected, or
\* it left the node standby
SkippedAtElection(n) ==
  /\ TickStep(n)
  /\ event'.outcome \in {"electionFailed", "standby"}

\* C18: on a store error tryAcquirePollerLease and tryRenewPollerLease return
\* false and leave the row alone, so an election that meets the error leaves
\* the node standby; a tick whose election fails or leaves the node standby
\* is skipped entirely (no target load, no batch, running flag, last-checked
\* store and history untouched), a rejected election changes neither the
\* lease nor the role, and the interval timer stays armed so that the next
\* tick runs the election again.
C18_FailSafeElection ==
  /\ [](\A n \in Nodes :
          /\ tryAcquirePollerLease(lease, n, clock, clock + LEASE_TTL_MS, TRUE)
               = [ok |-> FALSE, row |-> lease]
          /\ tryRenewPollerLease(lease, n, clock, clock + LEASE_TTL_MS, TRUE)
               = [ok |-> FALSE, row |-> lease]
          /\ ensurePollerLeadership(lease, n, clock, "error")
               = [role |-> "standby", row |-> lease])
  /\ [][\A n \in Nodes :
          SkippedAtElection(n) =>
            /\ ~event'.loaded
            /\ UNCHANGED <<running, batches, lastChecked, history>>
            /\ pollerTimer'[n] > clock
            /\ event'.outcome = "electionFailed" => UNCHANGED <<lease, role>>]_vars

\* the election of a node that was leader rejects while the lease has lapsed
\* and targets are due: the tick is skipped, and the node's next timer is armed
C18_Witness ==
  /\ event.outcome = "electionFailed"
  /\ role[event.node] = "leader"
  /\ lease.leader_id = event.node
  /\ lease.lease_expires_at < clock
  /\ ~running[event.node]
  /\ pollerTimer[event.node] > clock

(***************************************************************************)
(* C19  Outcome classification of a completed probe                        *)
(***************************************************************************)
\* the checkWithAiSdk calls that have returned for a request that completed
Classified == {i \in ProbeTargets : task[i].state = "settled" /\ ~task[i].run.thrown}

ThresholdOf(i) ==
  getNumericConfig(targetMeta[i].degraded_threshold_ms, DEGRADED_THRESHOLD_MS,
                   DEGRADED_THRESHOLD_MS_MIN, DEGRADED_THRESHOLD_MS_MAX)

LatencyStatus(i) ==
  IF task[i].run.latencyMs <= ThresholdOf(i) THEN "operational" ELSE "degraded"

\* C19: for every combination of stream error, collected text and latency, an
\* empty response gives failed, a non-empty response that fails validation
\* gives validation_failed with the message listing the expected answer and
\* the extracted numbers, a stream error gives error, and otherwise the
\* latency decides between operational (<= threshold) and degraded.
C19_OutcomeClassification ==
  \A i \in Classified :
    LET run == task[i].run
    IN /\ run.text = "empty" => results[i].status = "failed"
       /\ run.text = "invalid" =>
            /\ results[i].status = "validation_failed"
            /\ results[i].message = ValidationMessage
       /\ run.streamError => results[i].status = "error"
       /\ (~run.streamError /\ run.text = "valid") => results[i].status = LatencyStatus(i)

\* C19 as the code decides it: a stream error gives error whatever was
\* collected; without one an empty response gives failed ("empty reply"), a
\* non-empty response that fails validation gives validation_failed with the
\* message listing the expected answer and the extracted numbers, and a valid
\* response is operational when latency <= threshold and degraded above it.
\* The measured latency is reported in every case.
C19_ClassificationByPrecedence ==
  \A i \in Classified :
    LET run == task[i].run
    IN /\ results[i].latencyMs = run.latencyMs
       /\ run.streamError => results[i].status = "error"
       /\ (~run.streamError /\ run.text = "empty") =>
            /\ results[i].status = "failed"
            /\ results[i].message = "empty reply"
       /\ (~run.streamError /\ run.text = "invalid") =>
            /\ results[i].status = "validation_failed"
            /\ results[i].message = ValidationMessage
       /\ (~run.streamError /\ run.text = "valid") => results[i].status = LatencyStatus(i)

\* one probe met a stream error with nothing collected and is reported as
\* error, the other collected an invalid answer without a stream error
C19_Witness ==
  /\ {"p", "q"} \subseteq Classified
  /\ task["p"].run.streamError /\ task["p"].run.text = "empty"
  /\ results["p"].status = "error"
  /\ ~task["q"].run.streamError /\ task["q"].run.text = "invalid"
  /\ results["q"].status = "validation_failed"

(***************************************************************************)
(* C20  Renewal is owner-only and state-preserving on failure              *)
(***************************************************************************)
\* the step is the store's answer to the lease call node n has in flight
LeaseLands(n) ==
  /\ leaseReq[n].kind # "none"
  /\ leaseReq'[n].kind = "none"

\* C20: tryRenewPollerLease(n, now, e) succeeds only if the row is owned by n
\* and its expiry is strictly after now, and then sets the expiry to e and
\* keeps the owner; a renewal by another node or at or after the expiry, and
\* an acquire while the lease has not expired, return false; every call that
\* returns false leaves owner and expiry unchanged.
C20_RenewalOwnerOnly ==
  [][\A n \in Nodes :
       LeaseLands(n) =>
         LET r == leaseReq[n]
             ok == leaseRes'[n].ok
         IN /\ (r.kind = "renew" /\ ok) =>
                 /\ lease.leader_id = n
                 /\ lease.lease_expires_at > r.now
                 /\ lease'.leader_id = lease.leader_id
                 /\ lease'.lease_expires_at = r.expiresAt
            /\ (r.kind = "renew" /\ (lease.leader_id # n \/ lease.lease_expires_at <= r.now)) =>
                 ~ok
            /\ (r.kind = "acquire" /\ lease.lease_expires_at >= r.now) => ~ok
            /\ ~ok => lease' = lease]_vars

\* the owner has renewed its lease, and the other node's renewal of the same
\* live lease has been refused by the filter, not by a store error
C20_Witness ==
  \E n \in Nodes, m \in Nodes :
    /\ n # m
    /\ lease.leader_id = n
    /\ leaseRes[n].kind = "renew" /\ leaseRes[n].ok
    /\ lease.lease_expires_at = leaseRes[n].now + LEASE_TTL_MS
    /\ leaseRes[m].kind = "renew" /\ ~leaseRes[m].ok /\ ~leaseRes[m].err
    /\ lease.lease_expires_at > leaseRes[m].now

(***************************************************************************)
(* C21  Failover liveness                                                  *)
(***************************************************************************)
\* node n has taken the lease over and its tick has started a probe batch
TookOver(n) ==
  /\ role[n] = "leader"
  /\ lease.leader_id = n
  /\ event.node = n
  /\ event.outcome = "started"

\* C21: once the leader has died, a surviving node that keeps ticking and
\* reaches the store eventually acquires the lease and starts a probe batch.
C21_FailoverLiveness ==
  (event.kind = "crash") ~> (\E n \in Nodes \ Stopped : TookOver(n))

\* the survivor has started a batch as leader after the other process died
\* holding a live lease
C21_Witness ==
  /\ Stopped # {}
  /\ \E n \in Nodes \ Stopped : TookOver(n) /\ running[n]

(***************************************************************************)
(* C22  Per-target override resolution                                     *)
(***************************************************************************)
\* the metadata value is a finite number (given as a number or as a numeral)
\* inside lo..hi
NumberWithin(raw, lo, hi) ==
  /\ raw.kind \in {"number", "numeral"}
  /\ raw.value \in lo..hi

\* override key, once resolved, is the metadata value if that is a number
\* within lo..hi and the default otherwise
ResolvedOverride(key, lo, hi, def) ==
  settings[key] # Unset =>
    \A i \in ProbeTargets :
      settings[key] = IF NumberWithin(targetMeta[i][key], lo, hi)
                      THEN targetMeta[i][key].value
                      ELSE def

\* C22: an override is used if and only if it is a finite number inside its
\* range, and otherwise the default applies unchanged, without clamping:
\* degraded threshold in [100, 120000] else 6000, timeout in [1000, 300000]
\* else 45000, poll interval in [15, 3600] s else the global interval; hence
\* every resolved effective interval lies in [15 s, 3600 s].
C22_OverrideResolution ==
  /\ ResolvedOverride("degraded_threshold_ms", 100, 120000, 6000)
  /\ ResolvedOverride("timeout_ms", 1000, 300000, 45000)
  /\ ResolvedOverride("poll_interval_seconds", 15, 3600,
                      getPollingIntervalSeconds(env.pollIntervalSeconds))
  /\ settings.poll_interval_seconds # Unset => settings.poll_interval_seconds \in 15..3600

\* all three overrides of a target are resolved: a threshold above its range
\* gave the default, a timeout given as a numeral at the low end is used, and
\* a poll interval below its range gave the global interval, itself clamped
C22_Witness ==
  /\ targetMeta["p"].degraded_threshold_ms = JsonNumber(120001)
  /\ settings.degraded_threshold_ms = 6000
  /\ targetMeta["p"].timeout_ms = JsonNumeral(1000)
  /\ settings.timeout_ms = 1000
  /\ targetMeta["p"].poll_interval_seconds = JsonNumber(14)
  /\ env.pollIntervalSeconds = EnvNumber(601)
  /\ settings.poll_interval_seconds = 600

(***************************************************************************)
(* C23  In-flight marker cleanup                                           *)
(***************************************************************************)
\* the callers still inside the refreshHistory call that created refresh r
OwnerOf(r) == {u \in Callers : callers[u].pc = "owner" /\ callers[u].awaiting = r}

\* refresh r has settled and the refreshHistory call that created it has ended
RefreshFinished(r) ==
  /\ refreshes[r].settled # "pending"
  /\ OwnerOf(r) = {}

\* caller u goes through refreshHistory in this step and its mode asks for a refresh
EntersRefresh(u) ==
  /\ callers[u].pc = "readHistory"
  /\ callers'[u] # callers[u]
  /\ NeedsRefresh(callers[u].mode, callers[u].configs, history)

\* C23: once a refresh has finished, by success or by failure, no cache entry
\* carries its in-flight marker; a refresh that fails leaves the snapshot and
\* the timestamp of every entry (and the history) as they were; and a call
\* that reaches refreshHistory never awaits a finished refresh: when its entry
\* has no marker and no fresh snapshot it starts a new refresh.
C23_InflightCleanup ==
  /\ [](\A r \in DOMAIN refreshes :
          RefreshFinished(r) => \A e \in DOMAIN cacheEntries : cacheEntries[e].inflight # r)
  /\ [][/\ \A r \in DOMAIN refreshes :
            (refreshes[r].settled = "pending" /\ refreshes'[r].settled = "rejected") =>
              UNCHANGED <<cacheEntries, history, pingCacheStore>>
        /\ \A u \in Callers :
            EntersRefresh(u) =>
              LET entry == cacheEntries[callers[u].entry]
              IN /\ callers'[u].pc = "joined" => ~RefreshFinished(callers'[u].awaiting)
                 /\ (entry.inflight = 0 /\ ~entry.history) =>
                      /\ callers'[u].pc = "owner"
                      /\ refreshes'[callers'[u].awaiting].settled = "pending"
                      /\ callers'[u].awaiting \notin DOMAIN refreshes]_vars

\* a refresh has failed and its caller has returned; a later call for the
\* same targets has started a refresh of its own, which is pending
C23_Witness ==
  \E r1 \in DOMAIN refreshes, r2 \in DOMAIN refreshes :
    /\ r1 < r2
    /\ refreshes[r1].settled = "rejected"
    /\ RefreshFinished(r1)
    /\ refreshes[r2].configs = refreshes[r1].configs
    /\ refreshes[r2].settled = "pending"
    /\ OwnerOf(r2) # {}
    /\ \A e \in DOMAIN cacheEntries : cacheEntries[e].inflight # r1

(***************************************************************************)
(* C24  Only failed outcomes are retried                                   *)
(***************************************************************************)
FinalStatuses == {"validation_failed", "error", "operational", "degraded"}

\* the step starts one more checkProvider call for target i
Reattempts(i) ==
  /\ attempts[i] >= 1
  /\ attempts'[i] = attempts[i] + 1

\* C24: a probe is attempted again only after an outcome of status failed:
\* the immediate retry follows an attempt that produced failed, the
\* confirmation pass takes the targets whose result is failed; an outcome of
\* validation_failed, error, operational or degraded ends the checkWithRetry
\* call that produced it, is the result recorded for the target, and is never
\* replaced nor followed by another attempt.
C24_OnlyFailedRetried ==
  /\ [](\A i \in ProbeTargets :
          /\ task[i].state = "inflight" => task[i].last \in {"none", "failed"}
          /\ (task[i].state = "settled" /\ task[i].last \in FinalStatuses) =>
               results[i].status = task[i].last)
  /\ [][\A i \in ProbeTargets :
          /\ Reattempts(i) =>
               IF batchPhase' = batchPhase
               THEN task'[i].last = "failed"
               ELSE /\ batchPhase = "first" /\ batchPhase' = "confirm"
                    /\ results[i].status = "failed"
          /\ results[i].status \in FinalStatuses =>
               /\ results'[i] = results[i]
               /\ attempts'[i] = attempts[i]]_vars

\* the batch has returned: p failed validation on its only attempt, q failed
\* and was attempted again in the confirmation pass
C24_Witness ==
  /\ batchPhase = "returned"
  /\ results["p"].status = "validation_failed"
  /\ attempts["p"] = 1
  /\ attempts["q"] = 2
  /\ results["q"].status \in FinalStatuses

(***************************************************************************)
(* C25  Confirmation retry ordering                                        *)
(***************************************************************************)
\* the step starts the confirmation pass
ConfirmationStarts == batchPhase = "first" /\ batchPhase' = "confirm"

\* C25: the confirmation pass starts only when every initial checkWithRetry
\* call of the batch has returned; it starts, in one step, a retry for exactly
\* the targets whose result is failed at that point, and it is not skipped
\* while such a target exists; it runs at most once per batch (a target that
\* has settled during the pass is not started again); while a retry is in
\* flight the earlier failed result stays in place, and the outcome of the
\* retry is the result the batch returns for the target, failed or not.
C25_ConfirmationOrdering ==
  /\ [](\A i \in ProbeTargets :
          /\ (batchPhase = "confirm" /\ task[i].state = "inflight") =>
               results[i].status = "failed"
          /\ batchPhase = "returned" =>
               /\ task[i].state = "settled"
               /\ results[i].status = task[i].last
               /\ attempts[i] <= (MAX_REQUEST_ABORT_RETRIES + 1) * (FAILURE_CONFIRM_RETRIES + 1))
  /\ [][/\ ConfirmationStarts =>
             /\ \A i \in ProbeTargets : task[i].state = "settled"
             /\ \A i \in ProbeTargets :
                  (task'[i].state = "inflight") <=> (results[i].status = "failed")
             /\ \A i \in ProbeTargets : task'[i].state = "settled" => task'[i] = task[i]
             /\ results' = results
        /\ (batchPhase = "first" /\ batchPhase' = "returned") =>
             \A i \in ProbeTargets : task[i].state = "settled" /\ results[i].status # "failed"
        /\ batchPhase = "confirm" =>
             /\ batchPhase' \in {"confirm", "returned"}
             /\ \A i \in ProbeTargets :
                  task[i].state = "settled" => (task'[i] = task[i] /\ results'[i] = results[i])
        /\ batchPhase = "returned" => UNCHANGED <<task, results, attempts>>]_vars

\* the batch has returned after a confirmation pass in which the retry of p
\* gave a success that replaced the failed result, while the retry of q failed
\* again
C25_Witness ==
  /\ batchPhase = "returned"
  /\ attempts["p"] >= 2 /\ results["p"].status = "operational"
  /\ attempts["q"] >= 2 /\ results["q"].status = "failed"

(***************************************************************************)
(* C26  Last-checked updates                                               *)
(***************************************************************************)
ActiveTargets == {id \in InitialEnabled : ~ConfigRows[id].is_maintenance}

\* the step is the completion on node n of a batch that probed target id,
\* some time after the batch was started
BatchWithTargetCompletes(n, id) ==
  /\ event'.kind = "batchDone"
  /\ event'.node = n
  /\ id \in event'.due
  /\ \E b \in batches[n] \ batches'[n] :
       /\ id \in b.ids
       /\ b.startedAt < clock
       /\ b.endsAt = clock

\* C26: the last-checked timestamp of an active target changes only in the
\* step in which a batch that probed it completes, and then to the time of
\* completion; a target that was not in the batch keeps its timestamp, and a
\* run of tick(), whether it is skipped (standby, election failure, overlap,
\* nothing active, nothing due) or starts a batch, changes no timestamp.
C26_LastCheckedUpdates ==
  [][\A n \in Nodes :
       /\ \A id \in ActiveTargets :
            lastChecked'[n][id] # lastChecked[n][id] =>
              /\ BatchWithTargetCompletes(n, id)
              /\ lastChecked'[n][id] = clock
       /\ TickStep(n) => \A id \in ActiveTargets : lastChecked'[n][id] = lastChecked[n][id]]_vars

\* a batch of the short-interval target alone has completed: its timestamp is
\* the completion time, the timestamp of the other active target is older
C26_Witness ==
  /\ event.kind = "batchDone"
  /\ event.due = {"c"}
  /\ lastChecked[event.node]["c"] = clock
  /\ lastChecked[event.node]["g"] # 0
  /\ lastChecked[event.node]["g"] < clock

(***************************************************************************)
(* C27  Supplementary timer arming                                         *)
(***************************************************************************)
\* the step is one in which node n calls scheduleSupplementaryTick and that
\* leaves a timer armed
ArmsSupplementary(n) ==
  /\ supplementaryTimer'[n] # NoTimer
  /\ \/ supplementaryTimer'[n] # supplementaryTimer[n]
     \/ (TickStep(n) /\ event'.outcome = "noDue")
     \/ (event'.kind = "batchDone" /\ event'.node = n /\ event' # event
           /\ event'.outcome # "throw")

\* the active targets of node n that have been checked and whose effective
\* interval is shorter than the global one, after the step
CheckedShortTargets(n) ==
  {id \in ActiveTargets : IntervalOf(id) < POLL_INTERVAL_MS /\ lastChecked'[n][id] # 0}

EarliestShortDue(n) ==
  MinOf({lastChecked'[n][id] + IntervalOf(id) : id \in CheckedShortTargets(n)})

\* the timer is armed for the earliest due time of the checked short-interval
\* targets, and not earlier than 5 s from now
ArmedForEarliestDue(n) ==
  /\ CheckedShortTargets(n) # {}
  /\ supplementaryTimer'[n] - clock >= 5000
  /\ supplementaryTimer'[n] = Max2(EarliestShortDue(n), clock + 5000)

\* C27: a supplementary timer is armed only for the earliest due time among
\* the already-checked targets whose effective interval is shorter than the
\* global one (so never on account of a target that uses the global interval),
\* with a delay of at least 5 s, and only for a moment that is not within 2 s
\* of the next global tick.
C27_SupplementaryArming ==
  [][\A n \in Nodes :
       ArmsSupplementary(n) =>
         /\ ArmedForEarliestDue(n)
         /\ ~(pollerTimer'[n] - supplementaryTimer'[n] \in 0..2000)]_vars

\* what the code guarantees: an armed timer is for the earliest due time of
\* the checked short-interval targets, at least 5 s and less than the global
\* interval minus 2 s from the moment of arming
C27_ArmingByDelay ==
  [][\A n \in Nodes :
       ArmsSupplementary(n) =>
         /\ ArmedForEarliestDue(n)
         /\ supplementaryTimer'[n] - clock < POLL_INTERVAL_MS - 2000]_vars

\* a timer armed for a moment at most 2 s before the next global tick
C27_ArmedNearGlobalTick ==
  \E n \in Nodes :
    /\ supplementaryTimer[n] # NoTimer
    /\ pollerTimer[n] - supplementaryTimer[n] \in 0..2000

(***************************************************************************)
(* C28  Official-status in-flight guard                                    *)
(***************************************************************************)
\* the step is an invocation of runOfficialStatusCheck
OfficialInvocation == officialCalls' = officialCalls + 1

\* the step is the end of a run, whatever its fetch came to
OfficialRunEnds == officialRuns' # officialRuns /\ officialRuns' \subseteq officialRuns

\* C28: at most one official-status run is in progress; an invocation that
\* arrives while a run is in progress starts no fetch and leaves the
\* per-vendor table as it is; the end of a run, a failed one included,
\* releases the guard, so that an invocation that meets no run in progress
\* starts one.
C28_InFlightGuard ==
  [][/\ Cardinality(officialRuns') <= 1
     /\ (OfficialInvocation /\ officialRuns # {}) =>
          /\ officialRuns' = officialRuns
          /\ officialStatusCache' = officialStatusCache
          /\ officialEvent'.kind = "skipped"
     /\ OfficialRunEnds => ~isPolling'
     /\ (OfficialInvocation /\ officialRuns = {}) =>
          /\ officialRuns' # {}
          /\ officialEvent'.kind = "started"]_vars

\* an invocation is skipped during the run that was started after a run whose
\* fetch had timed out
C28_Witness ==
  /\ officialEvent.kind = "skipped"
  /\ officialRuns # {}
  /\ officialStatusCache["openai"].message = "check timed out"

(***************************************************************************)
(* C29  Official-status failures resolve to a value                        *)
(***************************************************************************)
OfficialHealthStatuses == {"operational", "degraded", "down", "unknown"}

\* the run that ended last left the given status and message for openai
OpenAILeft(status, message) ==
  /\ officialStatusCache["openai"].status = status
  /\ officialStatusCache["openai"].message = message

\* C29: no check of a vendor throws (no run ends in the catch block); after a
\* run whose fetch timed out, was answered with a status other than 200, or
\* brought a body that cannot be parsed, the table holds unknown for the
\* vendor, with a message that names the failure; and every entry of the
\* table is one of operational, degraded, down, unknown.
C29_FailuresResolve ==
  /\ officialEvent.kind # "failed"
  /\ \A t \in ProviderTypes :
       \/ officialStatusCache[t] = NoOfficialResult
       \/ officialStatusCache[t].status \in OfficialHealthStatuses
  /\ officialEvent.kind = "ended" =>
       LET f == officialEvent.fetch
       IN  /\ f.kind = "abort" => OpenAILeft("unknown", "check timed out")
           /\ (f.kind = "response" /\ f.status = 404) => OpenAILeft("unknown", "HTTP 404")
           /\ (f.kind = "response" /\ f.status = 503) => OpenAILeft("unknown", "HTTP 503")
           /\ f.kind = "badjson" => OpenAILeft("unknown", "check failed")
           /\ (f.kind = "response" /\ f.status = 200 /\ ~f.body.summary) =>
                OpenAILeft("unknown", "check failed")
           /\ \A t \in ProviderTypes : officialStatusCache[t].checkedAt = officialEvent.run

\* a run after the first has ended on a body that is not JSON
C29_Witness ==
  /\ officialEvent.kind = "ended"
  /\ officialEvent.fetch.kind = "badjson"
  /\ officialEvent.run > 1
  /\ OpenAILeft("unknown", "check failed")

(***************************************************************************)
(* C30  History read path equivalence                                      *)
(***************************************************************************)
BothPathsRead == fetched["rpc"].done /\ fetched["fallback"].done

\* C30: for the same rows of the History Store, the same limitPerConfig and
\* the same filter of target ids, the read returns the same snapshot through
\* the aggregation function and through the fallback query.
C30_ReadPathEquivalence ==
  BothPathsRead => fetched["rpc"].snapshot = fetched["fallback"].snapshot

\* the number of rows the read may return for a target
RowsOf(id) == Cardinality({r \in checkHistory : r.config_id = id})

\* the two paths agree when no limit is given, and when no target has more
\* rows than the limit
C30_EquivalentWithinLimit ==
  (/\ BothPathsRead
   /\ \/ fetchOptions.limitPerConfig = Unset
      \/ \A id \in HistoryIds : RowsOf(id) <= fetchOptions.limitPerConfig)
    => fetched["rpc"].snapshot = fetched["fallback"].snapshot

\* both paths have read a store in which a target has more rows than the limit
C30_BothReadOverLimit ==
  /\ BothPathsRead
  /\ fetchOptions.limitPerConfig = 1
  /\ RowsOf("c") = 2
  /\ Len(fetched["rpc"].snapshot["c"]) = 1
  /\ Len(fetched["fallback"].snapshot["c"]) = 2

(***************************************************************************)
(* C31  Storage failures are non-fatal                                     *)
(***************************************************************************)
\* the step is the end of a tick of node n whose history append failed
AppendFailed(n) ==
  /\ event' # event
  /\ event'.kind = "batchDone"
  /\ event'.node = n
  /\ event'.outcome \in {"error", "throw"}

\* the step leaves the targets of the batch checked now and the flag cleared
TickCompletes(n) ==
  /\ ~running'[n]
  /\ \A id \in event'.due : lastChecked'[n][id] = clock

C31_TickCompletesAfterFailure ==
  [][\A n \in Nodes :
       AppendFailed(n) =>
         /\ TickCompletes(n)
         /\ \E b \in batches[n] :
              /\ b \notin batches'[n]
              /\ supplementaryTimer'[n] =
                   IF event'.outcome = "throw" THEN supplementaryTimer[n]
                   ELSE scheduleSupplementaryTick(b.active, clock, lastChecked'[n])]_vars

(***************************************************************************)
(* C32  Cache invalidation after append.                                   *)
(***************************************************************************)
\* caller u is handed the snapshot kept in its cache entry
ServedFromCache(u) ==
  /\ callers[u].pc = "readHistory"
  /\ callers'[u].served = "cache"

\* the scheduler of this process has appended outcomes of one of u's targets
\* after the snapshot of u's cache entry was stored
SnapshotPredatesAppend(u) ==
  \E id \in callers[u].configs :
    /\ id \in history
    /\ lastChecked[Self][id] > cacheEntries[callers[u].entry].lastPingAt

\* C32: once a scheduler tick has appended its outcomes to the History
\* Store, no later call is handed a cached snapshot that was stored before
\* that append.
C32_InvalidatedAfterAppend ==
  [][\A u \in Callers : ServedFromCache(u) => ~SnapshotPredatesAppend(u)]_vars

(***************************************************************************)
(* C33  Probe cancellation is isolated.                                    *)
(***************************************************************************)
\* the request of probe i ends by its timeout in this step
TimesOut(i) ==
  /\ task[i].state = "inflight"
  /\ task'[i] # task[i]
  /\ task'[i].run.timedOut

\* the runs the endpoint and the timeout of probe i alone can produce
OwnRuns(i) == {o.run : o \in OutcomesOf(targetMeta[i])}

\* C33: the timeout of one probe leaves every sibling probe of the batch as
\* it is (in flight or settled, with its result and its attempt count), and
\* every probe settles with a run of its own endpoint and its own timeout.
C33_CancellationIsolated ==
  [][/\ \A i \in ProbeTargets : TimesOut(i) =>
          \A j \in ProbeTargets \ {i} :
             /\ task'[j] = task[j]
             /\ results'[j] = results[j]
             /\ attempts'[j] = attempts[j]
     /\ \A i \in ProbeTargets :
          (task'[i] # task[i] /\ task'[i].state = "settled") =>
             task'[i].run \in OwnRuns(i)]_vars

\* probe p has ended by its timeout and its sibling q, which was in flight
\* then, has answered in time and is operational
C33_Witness ==
  /\ task["p"].state = "settled"
  /\ task["p"].run.timedOut
  /\ task["q"].state = "settled"
  /\ ~task["q"].run.timedOut
  /\ results["q"].status = "operational"
  /\ batchPhase = "returned"

(***************************************************************************)
(* C34  Default-interval cadence.                                          *)
(***************************************************************************)
\* the enabled targets outside maintenance that use the global interval
DefaultIntervalTargets ==
  {id \in InitialEnabled : ~ConfigRows[id].is_maintenance /\ IntervalOf(id) = POLL_INTERVAL_MS}

\* a global tick of the leader n reaches the due-filter in this step, and no
\* tick so far failed its election or its load, overlapped or ran a slow batch
UndisturbedGlobalTick(n) ==
  /\ event' # event
  /\ event'.kind = "main"
  /\ event'.node = n
  /\ event'.outcome \in {"noDue", "started"}
  /\ faults' = {}

\* C34: on a node that stays leader, with fast batches and no overlapping
\* ticks, every global tick probes every enabled non-maintenance target that
\* uses the global default interval.
C34_DefaultIntervalCadence ==
  [][\A n \in Nodes : UndisturbedGlobalTick(n) => DefaultIntervalTargets \subseteq event'.due]_vars

\* under the same conditions two consecutive probes of such a target end less
\* than two global tick periods apart
C34_WithinTwoPeriods ==
  [][\A n \in Nodes :
       (event' # event /\ event'.kind = "batchDone" /\ event'.node = n /\ faults' = {}) =>
          \A id \in event'.due \cap DefaultIntervalTargets :
             lastChecked[n][id] = 0 \/ clock - lastChecked[n][id] < 2 * POLL_INTERVAL_MS]_vars

(***************************************************************************)
(* C35  The lease is obtainable at every instant.                          *)
(***************************************************************************)
\* an attempt made now and applied by the store now succeeds: an acquire by
\* some node, or a renewal by the owner of the row
Obtainable(row, now) ==
  \/ \E n \in Nodes : tryAcquirePollerLease(row, n, now, now + LEASE_TTL_MS, FALSE).ok
  \/ /\ row.leader_id # NoNode
     /\ tryRenewPollerLease(row, row.leader_id, now, now + LEASE_TTL_MS, FALSE).ok

\* C35: whatever the lease row holds and whatever the time is, an acquire by
\* some node or a renewal by the current owner can succeed; this includes the
\* instant of the expiry itself.
C35_LeaseObtainable == Obtainable(lease, clock)

\* away from the instant of the expiry an attempt can succeed
C35_ObtainableOffExpiry == clock # lease.lease_expires_at => Obtainable(lease, clock)

\* the lease row has an owner and the time is the instant of its expiry
C35_AtExpiry == lease.leader_id # NoNode /\ clock = lease.lease_expires_at

(***************************************************************************)
(* C36  Lease row initialisation is idempotent and non-destructive.        *)
(***************************************************************************)
\* node n's call of ensurePollerLeaseRow is answered in this step
EnsureAnswered(n) ==
  /\ leaseRes'[n] # leaseRes[n]
  /\ leaseRes'[n].kind = "ensure"

StartsProbes(n) ==
  /\ event' # event
  /\ event'.node = n
  /\ event'.outcome = "started"

\* another node has probed target id less than the target's effective
\* interval ago
ProbedRecentlyElsewhere(n, id) ==
  \E m \in Nodes \ {n} :
    /\ lastChecked[m][id] # 0
    /\ clock - lastChecked[m][id] < IntervalOf(id)

\* C37: a scheduler probe of a target starts at least the target's effective
\* interval after the previous scheduler probe of that target, whichever
\* node made it.
C37_SpacingAcrossFailover ==
  [][\A n \in Nodes : StartsProbes(n) =>
       \A id \in event'.due : ~ProbedRecentlyElsewhere(n, id)]_vars

\* on one node the spacing holds: a probe of a target starts at least the
\* effective interval after the node's own previous probe of it
C37_SpacingOnOneNode ==
  [][\A n \in Nodes : StartsProbes(n) =>
       \A id \in event'.due :
          lastChecked[n][id] = 0 \/ clock - lastChecked[n][id] >= IntervalOf(id)]_vars

(***************************************************************************)
(* C38  Last-checked bookkeeping follows the active set.                   *)
(***************************************************************************)
\* a tick of node n reaches the due-filter in this step
ReachesDueFilter(n) ==
  /\ event' # event
  /\ event'.node = n
  /\ event'.kind \in {"main", "supplementary"}
  /\ event'.outcome \in {"noDue", "started"}

\* the last handler that ran was a tick of node n that loaded the targets
\* and did not find target id among the active ones
SawInactive(n, id) ==
  /\ event.node = n
  /\ event.loaded
  /\ id \notin event.active

C38_PrunedAtDueFilter ==
  [][\A n \in Nodes : ReachesDueFilter(n) =>
       /\ event'.active = {id \in ConfigIds : checkConfigs[id].enabled /\ ~checkConfigs[id].is_maintenance}
       /\ \A id \in ConfigIds : lastChecked'[n][id] # 0 => id \in event'.active]_vars

\* the second half for a target that a tick reaching the due-filter saw away
C38_DueAfterPrune ==
  [][\A n \in Nodes : ReachesDueFilter(n) =>
       \A id \in event'.active :
          (SawInactive(n, id) /\ event.outcome \in {"noDue", "started"}) => id \in event'.due]_vars

(***************************************************************************)
(* C40  Snapshot cache size bound.                                         *)
(***************************************************************************)
\* the entries the ping cache store holds
StoredEntries == {pingCacheStore[k] : k \in KeysOf(pingCacheStore)}

\* the entries whose refresh is in flight
RefreshingEntries == {e \in DOMAIN cacheEntries : cacheEntries[e].inflight # 0}

\* C40: after a call the ping cache store holds at most PING_CACHE_MAX_SIZE
\* entries, and no call removes an entry whose refresh is in flight.
C40_CacheBounded ==
  [][/\ Cardinality(KeysOf(pingCacheStore')) <= PING_CACHE_MAX_SIZE
     /\ \A e \in RefreshingEntries \cap StoredEntries :
          e \in {pingCacheStore'[k] : k \in KeysOf(pingCacheStore')}]_vars

\* the size half alone
C40_SizeBound == Cardinality(KeysOf(pingCacheStore)) <= PING_CACHE_MAX_SIZE

\* at most one entry more than PING_CACHE_MAX_SIZE is held
C40_SizeBoundPlusOne == Cardinality(KeysOf(pingCacheStore)) <= PING_CACHE_MAX_SIZE + 1

(***************************************************************************)
(* C39  Timer uniqueness.                                                  *)
(***************************************************************************)
\* C39: a process never holds more than one interval timer of the scheduler,
\* more than one interval timer of the official-status poller, or more than
\* one pending supplementary one-shot timer, however often its poller module
\* is initialised.
C39_TimerUniqueness ==
  \A n \in Nodes :
    /\ timers[n].main <= 1
    /\ timers[n].official <= 1
    /\ timers[n].timeouts <= 1

\* the module has been initialised more than once, the official-status
\* timer has fired, and the process holds one timer of each kind
C39_Witness ==
  /\ timers[Self].loads >= 2
  /\ timers[Self].main = 1
  /\ timers[Self].official = 1
  /\ timers[Self].timeouts = 1
  /\ officialCalls >= 2

\* a call that arms the one-shot timer while another is pending leaves one
C39_RearmLeavesOne ==
  [][\A n \in Nodes :
       (/\ supplementaryTimer[n] # NoTimer
        /\ supplementaryTimer'[n] # NoTimer
        /\ event' # event
        /\ event'.kind # "supplementary") => timers'[n].timeouts = 1]_vars

\* the handles the code keeps and the timers the runtime holds agree
C39_HandlesMatchTimers ==
  \A n \in Nodes :
    /\ timers[n].main = (IF getPollerTimer(n) THEN 1 ELSE 0)
    /\ timers[n].timeouts = (IF supplementaryTimer[n] # NoTimer THEN 1 ELSE 0)
    /\ timers[Self].official = (IF pollingTimerId THEN 1 ELSE 0)

====
